---- MODULE Spec2Model ----
(***************************************************************************)
(* A model of the gateway's token-refresh lock, account store, dispatcher  *)
(* fail-over and API-key manager.                                          *)
(*                                                                         *)
(* The module holds several specifications over one set of variables; each *)
(* moves only the variables of its subsystem and leaves the others at      *)
(* their initial value:                                                    *)
(*   SpecLock   src/core/distributed_lock.py + refresh_access_token_in_db  *)
(*   SpecStore  the statements of src/services/account_service.py on table *)
(*              accounts                                                   *)
(*   SpecDispatch  src/api/dependencies.py and the retry loops of          *)
(*              src/routers/claude.py and src/routers/openai.py            *)
(*   SpecKeys   src/security/advanced.py and the key endpoints of          *)
(*              src/routers/admin.py, within one minute of the clock       *)
(*   SpecRate   verify_key of src/security/advanced.py for requests from   *)
(*              the whitelisted address as the clock advances              *)
(*   SpecHeader  the same for requests with an X-Account-Id header         *)
(*   SpecConversation  the requests of one conversation on the two         *)
(*              routers, with end-user ids and re-sent transmissions       *)
(*   SpecRefresh  refresh_access_token_in_db called by two tasks while     *)
(*              other requests write the account's statistics              *)
(*   SpecStream  the generators of a streamed response in both routers     *)
(*   SpecDedupe  src/core/request_dedupe.py on two worker processes        *)
(*   SpecStale  the lock when its holder hangs past the stale timeout      *)
(*   SpecRotate  the key-rotation endpoint, statement by statement         *)
(*   SpecCreation  account creation by the admin API and the device flow   *)
(*   SpecSessions  AUTH_SESSIONS of src/services/account_service.py        *)
(*   SpecFlow   a device-flow login of src/routers/auth.py                 *)
(*   SpecQuota  src/services/quota_service.py and table quota_stats        *)
(*   SpecSse    ClaudeStreamHandler of src/integrations/claude/stream.py   *)
(*   SpecThink  the thinking-tag scanners of both dialects                 *)
(*   SpecContent  the cumulative-content dedup of the text events          *)
(*   SpecTranslation  convert_claude_to_amazonq_request and its history    *)
(*   SpecFleet  verify_key on two worker processes, call by call           *)
(*   SpecRelease  the refresh lock with every way out of the critical      *)
(*              section, exceptions and cancellation included              *)
(*   SpecEndpoint  a chat request from require_account to the dedup check  *)
(***************************************************************************)
EXTENDS Integers, Sequences, FiniteSets, TLC

VARIABLES
    \* ---- lock directory (src/core/distributed_lock.py) ----
    path,         \* inode the lock file name points at, 0 = no such file
    age,          \* inode -> time.time() - st_mtime, saturating
    flockOwner,   \* inode -> task holding the exclusive flock, NoTask = none
    fd,           \* task -> inode its open descriptor refers to, 0 = none
    \* ---- refresh_access_token_in_db, one call per task ----
    pc,           \* task -> position in acquire / critical section / release
    elapsed,      \* task -> time.time() - start_time in acquire(), saturating
    outcome,      \* task -> how the call ended
    row,          \* the account's row in table accounts (refresh columns)
    posts,        \* number of OIDC POSTs sent for the account
    successWrites, \* number of UPDATEs that set last_refresh_status = success
    \* ---- table accounts ----
    accounts,     \* account id -> statistics columns of its row
    \* ---- one chat request going through a router ----
    req,          \* the request: key ACL, current account, tried_accounts, ...
    session,      \* SessionService: account bound to the conversation
    \* ---- AdvancedKeyManager and table secure_keys ----
    keys,         \* self.keys: key id -> the manager's SecureKeyInfo
    secure_keys,  \* table secure_keys: key id -> row
    expired,      \* key ids whose expires_at lies in the past
    rate_limits,  \* self.rate_limits: key id -> list of time stamps
    failed_attempts, \* self.failed_attempts: client ip -> attempts in the hour
    now,          \* time.time() of the manager's host
    verdict,      \* what the last verify_key call returned, and why
    authLog,      \* key id -> time stamp -> authorizations by this process
    authTotal,    \* key id -> authorizations since the key was issued
    restarts,     \* number of process restarts so far
    returned,     \* task -> the row its refresh call returned
    stream,       \* the streamed response being served
    seen,         \* worker process -> its _SEEN: dedup key -> time of the mark
    window,       \* REQUEST_DEDUPE_WINDOW_MS of the deployment
    now_ms,       \* _now_ms()
    dedupe,       \* the last request that reached the dedup check, and its fate
    arrivals,     \* dedup key -> arrival time of the last request with that key
    \* ---- POST /v2/security/keys/{key_id}/rotate in flight ----
    rotation,     \* the rotation request: old key, new key, statements done
    \* ---- account creation (admin create, feed import, device flow) ----
    creation,     \* rows of table accounts by credentials, and the calls in flight
    \* ---- _AUTH_SESSIONS of src/services/account_service.py ----
    auth_sessions, \* the in-memory session map, its clock and the last put
    \* ---- device-flow login (src/routers/auth.py) ----
    flow,         \* the auth session of one authStart and its poller
    \* ---- table account_quota_stats ----
    quota,        \* the counters by (account, month), and what was recorded
    \* ---- ClaudeStreamHandler ----
    sse,          \* the handler's state and the events it has emitted
    think,        \* the thinking-tag scanner's buffer and its output
    \* ---- _dedupe_assistant_content_events ----
    assistant_content, \* last_assistant_content, the contents received, the deltas
    \* ---- convert_claude_to_amazonq_request ----
    translation,  \* the messages of one request and the history made of them
    \* ---- worker processes, each with its own AdvancedKeyManager ----
    fleet,        \* the key's row, every worker's copy of it, the calls in flight
    \* ---- one request on its way through a chat endpoint ----
    endpoint      \* where it stands, its key and the key's usage before it

lockVars == <<path, age, flockOwner, fd, pc, elapsed, outcome, row,
              posts, successWrites, returned>>
storeVars == <<accounts>>
dispatchVars == <<req, session>>
keyVars == <<keys, secure_keys, expired, rate_limits, failed_attempts, now,
             verdict, authLog, authTotal, restarts>>

streamVars == <<stream>>
dedupeVars == <<seen, window, now_ms, dedupe, arrivals>>
midVars == <<rotation, creation, auth_sessions, flow, quota, sse, think>>
lateVars == <<assistant_content, translation, fleet, endpoint>>
moreVars == <<rotation, creation, auth_sessions, flow, quota, sse, think,
             lateVars>>
baseVars == <<lockVars, storeVars, dispatchVars, keyVars, streamVars, dedupeVars>>

vars == <<lockVars, storeVars, dispatchVars, keyVars, streamVars, dedupeVars, moreVars>>

----------------------------------------------------------------------------
(* Bounds and constants of the lock model.                                 *)

\* Time is counted in ticks of 30 s (the largest unit dividing 30 s, 60 s and
\* 300 s), and kept as the differences the code computes (time.time() - x),
\* each saturating one tick past the largest threshold it is compared with.
\* DistributedLock.timeout = 30.0 s
LOCK_TIMEOUT == 1
\* DistributedLock.stale_timeout = 300.0 s
LOCK_STALE_TIMEOUT == 10
\* the "refreshed within the last 60 s" window of refresh_access_token_in_db
REFRESH_DEBOUNCE == 2

Tasks == {"t1", "t2", "t3"}
NoTask == "none"
Inodes == 1 .. (Cardinality(Tasks) + 1)
None == -1

----------------------------------------------------------------------------
(* Account store: table accounts (src/core/database.py), statistics        *)
(* columns.  The refresh columns of the one account SpecLock refreshes are *)
(* in row.  Every account has its refresh credentials.                     *)

\* MAX_ERROR_COUNT (environment, default 100, any value >= 1)
MAX_ERROR_COUNT == 2
\* a failing statistics update is not taken once error_count is here
MaxErrors == 3
\* a succeeding statistics update is not taken once success_count is here
MaxSuccesses == 1

AccountIds == {"a1", "a2", "a3"}
NoAccount == "none"
RefreshedAccount == "a1"
\* position in ORDER BY created_at: a3 is the newest row
CreatedAt == [a \in AccountIds |-> CASE a = "a1" -> 1 [] a = "a2" -> 2 [] OTHER -> 3]

\* Variants of the store's statements with a plausible defect each.
update_account_stats_keeps_enabled(accts, id, success, quota_exhausted) ==
    IF success
    THEN [accts EXCEPT ![id].success_count = @ + 1,
                       ![id].error_count = 0,
                       ![id].quota_exhausted = FALSE]
    ELSE IF quota_exhausted
    THEN [accts EXCEPT ![id].quota_exhausted = TRUE,
                       ![id].enabled = FALSE]
    ELSE [accts EXCEPT ![id].error_count = @ + 1]

update_account_stats_quota_keeps_enabled(accts, id, success, quota_exhausted) ==
    IF success
    THEN [accts EXCEPT ![id].success_count = @ + 1,
                       ![id].error_count = 0,
                       ![id].quota_exhausted = FALSE]
    ELSE IF quota_exhausted
    THEN [accts EXCEPT ![id].quota_exhausted = TRUE]
    ELSE [accts EXCEPT ![id].error_count = @ + 1,
                       ![id].enabled = IF accts[id].error_count + 1 >= MAX_ERROR_COUNT
                                       THEN FALSE ELSE @]

list_all_accounts(accts) == AccountIds

\* update_account_stats: one UPDATE per call.
update_account_stats(accts, id, success, quota_exhausted) ==
    IF success
    THEN [accts EXCEPT ![id].success_count = @ + 1,
                       ![id].error_count = 0,
                       ![id].quota_exhausted = FALSE]
    ELSE IF quota_exhausted
    THEN [accts EXCEPT ![id].quota_exhausted = TRUE,
                       ![id].enabled = FALSE]
    ELSE [accts EXCEPT ![id].error_count = @ + 1,
                       ![id].enabled = IF accts[id].error_count + 1 >= MAX_ERROR_COUNT
                                       THEN FALSE ELSE @]

\* disable_account: UPDATE accounts SET enabled=0, last_refresh_status=reason
disable_account(accts, id) == [accts EXCEPT ![id].enabled = FALSE]

\* update_account with updates = {"enabled": e}: UPDATE accounts SET enabled=?
update_account(accts, id, e) == [accts EXCEPT ![id].enabled = e]

\* list_enabled_accounts: SELECT * FROM accounts WHERE enabled=1
list_enabled_accounts(accts) == {a \in AccountIds : accts[a].enabled}

\* account_score of _select_best_account: (error_rate, success_count,
\* error_count), error_rate = error_count / total, 0 when total = 0.
RateNum(r) == r.error_count
RateDen(r) == IF r.error_count + r.success_count > 0
              THEN r.error_count + r.success_count ELSE 1
ScoreLess(x, y) ==
    \/ RateNum(x) * RateDen(y) < RateNum(y) * RateDen(x)
    \/ /\ RateNum(x) * RateDen(y) = RateNum(y) * RateDen(x)
       /\ \/ x.success_count < y.success_count
          \/ /\ x.success_count = y.success_count
             /\ x.error_count < y.error_count
ScoreEq(x, y) ==
    /\ RateNum(x) * RateDen(y) = RateNum(y) * RateDen(x)
    /\ x.success_count = y.success_count
    /\ x.error_count = y.error_count

\* _select_best_account: sorted(candidates, key=account_score)[0]; the sort
\* is stable and the candidates come newest first.
select_best_account(accts, candidates) ==
    CHOOSE a \in candidates :
        \A b \in candidates \ {a} :
            \/ ScoreLess(accts[a], accts[b])
            \/ ScoreEq(accts[a], accts[b]) /\ CreatedAt[a] > CreatedAt[b]

----------------------------------------------------------------------------
(* The lock directory: one lock file per resource, flock on its inode.     *)

Referenced(i, p, f) == p = i \/ \E t \in Tasks : f[t] = i

\* An inode no name and no descriptor refers to is gone; its slot is reset.
GcAge(m, p, f) == [i \in Inodes |-> IF Referenced(i, p, f) THEN m[i] ELSE 0]
GcOwner(o, p, f) == [i \in Inodes |-> IF Referenced(i, p, f) THEN o[i] ELSE NoTask]

FreshInode == CHOOSE i \in Inodes : ~Referenced(i, path, fd)

\* variant
never_stale == FALSE

\* _is_lock_stale: the file exists and its age exceeds stale_timeout.
is_lock_stale == path # 0 /\ age[path] > LOCK_STALE_TIMEOUT

\* is_access_token_expired on a row of the table (the column expires_at is
\* always present in such a row).
is_access_token_expired(r) ==
    \/ ~r.accessToken
    \/ r.expires_at = "unknown"
    \/ r.expires_at = "past"

\* The part of acquire() between "yield" and "finally".
\* variant
never_debounced(since_refresh) == FALSE

\* "time.time() - last_time < 60" on a row that has a last_refresh_time; the
\* stamps and the instants of the model are whole seconds.
within_debounce(since_refresh) ==
    since_refresh # None /\ since_refresh < REFRESH_DEBOUNCE

\* row_to_dict(SELECT * FROM accounts WHERE id=?): the columns of the row as
\* stored; every successful refresh stores another access token and every
\* refresh attempt another last_refresh_time.
StoredRow ==
    [accessToken |-> successWrites, expires_at |-> row.expires_at,
     last_refresh_status |-> row.last_refresh_status,
     stats |-> accounts[RefreshedAccount]]

\* What refresh_access_token_in_db hands back, and whether the call found a
\* last_refresh_time less than 60 s old.
Returns(r) == [row |-> r, in_window |-> within_debounce(row.since_refresh)]
NoReturn ==
    [row |-> [accessToken |-> None, expires_at |-> "none",
              last_refresh_status |-> "none",
              stats |-> [enabled |-> FALSE, error_count |-> 0,
                         success_count |-> 0, quota_exhausted |-> FALSE]],
     in_window |-> FALSE]

InCriticalSection(t) == pc[t] \in {"cs_read", "post", "await_resp"}

\* acquire(): start_time = time.time()
Start(t) ==
    /\ pc[t] = "idle"
    /\ UNCHANGED <<dispatchVars, keyVars, streamVars, dedupeVars, moreVars, returned>>
    /\ pc' = [pc EXCEPT ![t] = "loop"]
    /\ elapsed' = [elapsed EXCEPT ![t] = 0]
    /\ UNCHANGED <<path, age, flockOwner, fd, outcome, row, posts,
                   successWrites, accounts>>

\* while time.time() - start_time < self.timeout ... else raise TimeoutError
LoopCheck(t) ==
    /\ pc[t] = "loop"
    /\ UNCHANGED <<dispatchVars, keyVars, streamVars, dedupeVars, moreVars, returned>>
    /\ IF elapsed[t] < LOCK_TIMEOUT
       THEN /\ pc' = [pc EXCEPT ![t] = "stale_check"]
            /\ UNCHANGED <<outcome, elapsed>>
       ELSE /\ pc' = [pc EXCEPT ![t] = "done"]
            /\ outcome' = [outcome EXCEPT ![t] = "lock_timeout"]
            /\ elapsed' = [elapsed EXCEPT ![t] = 0]
    /\ UNCHANGED <<path, age, flockOwner, fd, row, posts, successWrites,
                   accounts>>

\* if self._is_lock_stale(lock_path): ...
StaleCheck(t) ==
    /\ pc[t] = "stale_check"
    /\ UNCHANGED <<dispatchVars, keyVars, streamVars, dedupeVars, moreVars, returned>>
    /\ pc' = [pc EXCEPT ![t] = IF is_lock_stale THEN "force_remove" ELSE "open"]
    /\ UNCHANGED <<path, age, flockOwner, fd, elapsed, outcome, row,
                   posts, successWrites, accounts>>

\* _force_remove_lock: lock_path.unlink(missing_ok=True)
ForceRemove(t) ==
    /\ pc[t] = "force_remove"
    /\ UNCHANGED <<dispatchVars, keyVars, streamVars, dedupeVars, moreVars, returned>>
    /\ path' = 0
    /\ age' = GcAge(age, 0, fd)
    /\ flockOwner' = GcOwner(flockOwner, 0, fd)
    /\ pc' = [pc EXCEPT ![t] = "open"]
    /\ UNCHANGED <<fd, elapsed, outcome, row, posts, successWrites,
                   accounts>>

\* _do_acquire: fd = os.open(lock_path, O_RDWR | O_CREAT)
Open(t) ==
    /\ pc[t] = "open"
    /\ UNCHANGED <<dispatchVars, keyVars, streamVars, dedupeVars, moreVars, returned>>
    /\ IF path = 0
       THEN /\ path' = FreshInode
            /\ age' = [age EXCEPT ![FreshInode] = 0]
            /\ fd' = [fd EXCEPT ![t] = FreshInode]
       ELSE /\ fd' = [fd EXCEPT ![t] = path]
            /\ UNCHANGED <<path, age>>
    /\ pc' = [pc EXCEPT ![t] = "flock"]
    /\ UNCHANGED <<flockOwner, elapsed, outcome, row, posts,
                   successWrites, accounts>>

\* _do_acquire: fcntl.flock(fd, LOCK_EX | LOCK_NB); on BlockingIOError the
\* descriptor is closed, _try_acquire_lock returns None and acquire() sleeps
\* 0.1 s before the next round.
Flock(t) ==
    /\ pc[t] = "flock"
    /\ UNCHANGED <<dispatchVars, keyVars, streamVars, dedupeVars, moreVars, returned>>
    /\ IF flockOwner[fd[t]] = NoTask
       THEN /\ flockOwner' = [flockOwner EXCEPT ![fd[t]] = t]
            /\ pc' = [pc EXCEPT ![t] = "stamp"]
            /\ elapsed' = [elapsed EXCEPT ![t] = 0]
            /\ UNCHANGED <<fd, age>>
       ELSE /\ fd' = [fd EXCEPT ![t] = 0]
            /\ age' = GcAge(age, path, fd')
            /\ flockOwner' = GcOwner(flockOwner, path, fd')
            /\ pc' = [pc EXCEPT ![t] = "loop"]
            /\ UNCHANGED elapsed
    /\ UNCHANGED <<path, outcome, row, posts, successWrites, accounts>>

\* _do_acquire: ftruncate, write the timestamp, fsync; acquire() then yields.
Stamp(t) ==
    /\ pc[t] = "stamp"
    /\ UNCHANGED <<dispatchVars, keyVars, streamVars, dedupeVars, moreVars, returned>>
    /\ age' = [age EXCEPT ![fd[t]] = 0]
    /\ pc' = [pc EXCEPT ![t] = "cs_read"]
    /\ UNCHANGED <<path, flockOwner, fd, elapsed, outcome, row, posts,
                   successWrites, accounts>>

\* refresh_access_token_in_db inside the lock: SELECT the row; return it if
\* expires_at is known and in the future; return the re-read row if
\* last_refresh_time is less than 60 s old; otherwise go on to the POST.
CsRead(t) ==
    /\ pc[t] = "cs_read"
    /\ UNCHANGED <<dispatchVars, keyVars, streamVars, dedupeVars, moreVars>>
    /\ IF row.expires_at # "unknown" /\ ~is_access_token_expired(row)
       THEN /\ outcome' = [outcome EXCEPT ![t] = "unexpired_row"]
            /\ returned' = [returned EXCEPT ![t] = Returns(StoredRow)]
            /\ pc' = [pc EXCEPT ![t] = "rel_unlock"]
       ELSE IF within_debounce(row.since_refresh)
       THEN /\ outcome' = [outcome EXCEPT ![t] = "debounced_row"]
            /\ returned' = [returned EXCEPT ![t] = Returns(StoredRow)]
            /\ pc' = [pc EXCEPT ![t] = "rel_unlock"]
       ELSE /\ pc' = [pc EXCEPT ![t] = "post"]
            /\ UNCHANGED <<outcome, returned>>
    /\ UNCHANGED <<path, age, flockOwner, fd, elapsed, row, posts,
                   successWrites, accounts>>

\* client.post(TOKEN_URL, ...): the request leaves.
Post(t) ==
    /\ pc[t] = "post"
    /\ UNCHANGED <<dispatchVars, keyVars, streamVars, dedupeVars, moreVars, returned>>
    /\ posts' = posts + 1
    /\ pc' = [pc EXCEPT ![t] = "await_resp"]
    /\ UNCHANGED <<path, age, flockOwner, fd, elapsed, outcome, row,
                   successWrites, accounts>>

\* 200 from the OIDC endpoint: one UPDATE writes accessToken, refreshToken,
\* expires_at = now + expiresIn (an instant beyond the run), last_refresh_time
\* and last_refresh_status.
RespOk(t) ==
    /\ pc[t] = "await_resp"
    /\ UNCHANGED <<dispatchVars, keyVars, streamVars, dedupeVars, moreVars>>
    /\ row' = [accessToken |-> TRUE, expires_at |-> "future",
               since_refresh |-> 0, last_refresh_status |-> "success"]
    /\ successWrites' = successWrites + 1
    /\ outcome' = [outcome EXCEPT ![t] = "refreshed_row"]
    /\ UNCHANGED <<path, age, flockOwner, fd, elapsed, posts,
                   accounts>>
    /\ returned' = [returned EXCEPT ![t] = Returns(StoredRow')]
    /\ pc' = [pc EXCEPT ![t] = "rel_unlock"]

\* httpx.HTTPStatusError / HTTPError / any exception of the POST: UPDATE
\* last_refresh_time and last_refresh_status = failed,
\* update_account_stats(id, False), raise HTTPException(502).
RespError(t) ==
    /\ pc[t] = "await_resp"
    /\ UNCHANGED <<dispatchVars, keyVars, streamVars, dedupeVars, moreVars, returned>>
    /\ row' = [row EXCEPT !.since_refresh = 0,
                          !.last_refresh_status = "failed"]
    /\ accounts' = update_account_stats(accounts, RefreshedAccount, FALSE, FALSE)
    /\ outcome' = [outcome EXCEPT ![t] = "http_502"]
    /\ pc' = [pc EXCEPT ![t] = "rel_unlock"]
    /\ UNCHANGED <<path, age, flockOwner, fd, elapsed, posts,
                   successWrites>>

\* _do_release: fcntl.flock(fd, LOCK_UN)
RelUnlock(t) ==
    /\ pc[t] = "rel_unlock"
    /\ UNCHANGED <<dispatchVars, keyVars, streamVars, dedupeVars, moreVars, returned>>
    /\ flockOwner' = [flockOwner EXCEPT ![fd[t]] = NoTask]
    /\ pc' = [pc EXCEPT ![t] = "rel_close"]
    /\ UNCHANGED <<path, age, fd, elapsed, outcome, row, posts,
                   successWrites, accounts>>

\* _do_release: os.close(fd)
RelClose(t) ==
    /\ pc[t] = "rel_close"
    /\ UNCHANGED <<dispatchVars, keyVars, streamVars, dedupeVars, moreVars, returned>>
    /\ fd' = [fd EXCEPT ![t] = 0]
    /\ age' = GcAge(age, path, fd')
    /\ flockOwner' = GcOwner(flockOwner, path, fd')
    /\ pc' = [pc EXCEPT ![t] = "rel_unlink"]
    /\ UNCHANGED <<path, elapsed, outcome, row, posts, successWrites,
                   accounts>>

\* _do_release: lock_path.unlink(missing_ok=True)
RelUnlink(t) ==
    /\ pc[t] = "rel_unlink"
    /\ UNCHANGED <<dispatchVars, keyVars, streamVars, dedupeVars, moreVars, returned>>
    /\ path' = 0
    /\ age' = GcAge(age, 0, fd)
    /\ flockOwner' = GcOwner(flockOwner, 0, fd)
    /\ pc' = [pc EXCEPT ![t] = "done"]
    /\ UNCHANGED <<fd, elapsed, outcome, row, posts, successWrites,
                   accounts>>

\* acquire(): the finally clause that follows the yield.  The lock is released
\* when a descriptor was obtained, whatever ended the block.
\* Variant: nothing is released on the way out.
finally_skipped(held) == "done"

finally_of_acquire(held) == IF held # 0 THEN "rel_unlock" ELSE "done"

\* Exceptions raised inside the lock before anything is sent: the row is not
\* found (404), or the account lacks its refreshToken or client credentials
\* (400).  Nothing is written; the exception leaves through acquire().
RaisedInside == {"http_404", "http_400"}

Raises(t, how) ==
    /\ pc[t] = "cs_read"
    /\ UNCHANGED <<dispatchVars, keyVars, streamVars, dedupeVars, moreVars, returned>>
    /\ outcome' = [outcome EXCEPT ![t] = how]
    /\ pc' = [pc EXCEPT ![t] = finally_of_acquire(fd[t])]
    /\ UNCHANGED <<path, age, flockOwner, fd, elapsed, row, posts,
                   successWrites, accounts>>

\* The task is cancelled while it waits inside the lock, for the SELECT or
\* for the answer to the POST: CancelledError is raised at the await, no
\* except clause of the refresh catches it (they catch Exception), and it
\* leaves through acquire().
Cancelled(t) ==
    /\ pc[t] \in {"cs_read", "await_resp"}
    /\ UNCHANGED <<dispatchVars, keyVars, streamVars, dedupeVars, moreVars, returned>>
    /\ outcome' = [outcome EXCEPT ![t] = "cancelled"]
    /\ pc' = [pc EXCEPT ![t] = finally_of_acquire(fd[t])]
    /\ UNCHANGED <<path, age, flockOwner, fd, elapsed, row, posts,
                   successWrites, accounts>>

\* The status the client of the request is answered with when the refresh
\* call ends in outcome o.  The HTTPException(502) of a failed refresh is
\* passed on.  The TimeoutError of acquire() is caught nowhere as such: the
\* routers count it as a failure of the account and re-raise it, and
\* global_exception_handler answers 500 "Internal Server Error".
answered_status(o) ==
    CASE o = "http_502" -> 502
      [] o = "lock_timeout" -> 500
      [] OTHER -> 200

\* time.time() advances by one tick: every difference the code computes grows.
Sat(x, limit) == IF x <= limit THEN x + 1 ELSE x

InAcquire(t) == pc[t] \in {"loop", "stale_check", "force_remove", "open", "flock"}

\* Time passes only while every task is somewhere it can spend time: not yet
\* called, asleep between two rounds of acquire(), waiting for the OIDC
\* answer, or returned.  File-system calls and queries take no tick.
CanWait(t) == pc[t] \in {"idle", "loop", "await_resp", "done"}

Tick ==
    /\ \A t \in Tasks : CanWait(t)
    /\ UNCHANGED <<dispatchVars, keyVars, streamVars, dedupeVars, moreVars, returned>>
    /\ age' = [i \in Inodes |->
                 IF Referenced(i, path, fd) THEN Sat(age[i], LOCK_STALE_TIMEOUT)
                 ELSE 0]
    /\ elapsed' = [t \in Tasks |->
                     IF InAcquire(t) THEN Sat(elapsed[t], LOCK_TIMEOUT - 1) ELSE 0]
    /\ row' = [row EXCEPT !.since_refresh =
                  IF @ = None THEN None ELSE Sat(@, REFRESH_DEBOUNCE - 1)]
    /\ UNCHANGED <<path, flockOwner, fd, pc, outcome, posts, successWrites,
                   accounts>>

----------------------------------------------------------------------------
(* Operations on table accounts made on behalf of other requests, of the   *)
(* admin API and of the bulk import.                                       *)

\* update_account_stats(id, success, quota_exhausted=...)
UpdateAccountStats(id, success, quota_exhausted) ==
    /\ success => accounts[id].success_count < MaxSuccesses
    /\ ~success /\ ~quota_exhausted => accounts[id].error_count < MaxErrors
    /\ success => ~quota_exhausted
    /\ accounts' = update_account_stats(accounts, id, success, quota_exhausted)
    /\ UNCHANGED <<lockVars, dispatchVars, keyVars, streamVars,
                   dedupeVars, moreVars>>

\* disable_account(id, reason)
DisableAccount(id) ==
    /\ accounts' = disable_account(accounts, id)
    /\ UNCHANGED <<lockVars, dispatchVars, keyVars, streamVars,
                   dedupeVars, moreVars>>

\* PATCH /v2/accounts/{id} with body {"enabled": e}: update_account
AdminUpdate(id, e) ==
    /\ accounts' = update_account(accounts, id, e)
    /\ UNCHANGED <<lockVars, dispatchVars, keyVars, streamVars,
                   dedupeVars, moreVars>>

\* The bulk import has inserted this row with enabled=0 and zero counters and
\* has started verify_and_enable_accounts on it.
ImportedAccount == "a3"
FreshlyImported(id, r) ==
    /\ id = ImportedAccount
    /\ ~r.enabled /\ r.error_count = 0 /\ r.success_count = 0 /\ ~r.quota_exhausted

\* verify_and_enable_accounts([id]), called by the bulk import on the rows it
\* has just inserted: verify_account refreshes the token (a failed refresh
\* calls update_account_stats(id, False)) and sends a test request; on
\* success UPDATE accounts SET enabled=1, otherwise only column other is
\* written.
VerifyAndEnable(id, result) ==
    /\ FreshlyImported(id, accounts[id])
    /\ accounts' = CASE result = "verified" -> [accounts EXCEPT ![id].enabled = TRUE]
                   [] result = "refresh_failed" ->
                          update_account_stats(accounts, id, FALSE, FALSE)
                   [] OTHER -> accounts
    /\ UNCHANGED <<lockVars, dispatchVars, keyVars, streamVars,
                   dedupeVars, moreVars>>

----------------------------------------------------------------------------
(* One chat request: resolve_account_for_key, the session binding of the   *)
(* OpenAI router, and the retry loop of each router.  The answers of the   *)
(* upstream service (src/integrations/replicate.py) are inputs.            *)

\* max_retries of both retry loops
max_retries == 3
\* max_retries of _send_request_with_retry: transmissions of one call
send_max_retries == 2

\* requests served one after the other
MaxRequests == 2

Routers == {"claude", "openai"}
\* allowed_account_ids of the key in use: empty = every account
KeyAcls == {{}, {"a1", "a2"}}

\* req.user / X-End-User-Id / X-User-Id of the request; none = absent
NoUser == "none"
EndUsers == {"u1"}
\* content of the first three messages of the conversation
Conversation == "conv"

\* SessionService.generate_session_key: md5 of the content of the first
\* three messages, prefixed by "<user_id>:" when a user id is given.
generate_session_key(content, user_id) ==
    IF user_id # NoUser THEN <<user_id, content>> ELSE <<content>>

SessionKeys == {generate_session_key(Conversation, u) : u \in EndUsers \cup {NoUser}}

\* SessionService.get_session_account / bind_session_account on table
\* session_accounts (no row = NoAccount)
get_session_account(sess, session_key) == sess[session_key]
bind_session_account(sess, session_key, account_id) ==
    [sess EXCEPT ![session_key] = account_id]

\* variants
unscoped_candidates(candidates, allowed) == candidates
one_more_attempt(attempt) == attempt < max_retries
final_status_swapped(answer) == IF answer = "quota" THEN 403 ELSE 402

\* scoped_candidates of resolve_account_for_key
scoped_candidates(candidates, allowed) ==
    IF allowed # {} THEN candidates \cap allowed ELSE candidates

\* "attempt < max_retries - 1" of the retry loops: another pass may follow
more_attempts(attempt) == attempt < max_retries - 1

\* _raise_final_error and the raise statements that end the branches of the
\* Anthropic loop: 402 for QuotaExhaustedException, 403 for
\* AccountSuspendedException and AccountUnauthorizedException
final_status(answer) == IF answer = "quota" THEN 402 ELSE 403

IdleRequest ==
    [phase |-> "idle", router |-> "none", allowed |-> {}, requested |-> NoAccount,
     default |-> NoAccount, end_user |-> NoUser, first |-> NoAccount,
     account |-> NoAccount, tried_accounts |-> {}, attempt |-> 0, sends |-> 0,
     picks |-> <<>>, status |-> 0, number |-> 0]

\* The response leaves; the request's locals are gone.
Finished(status) ==
    [IdleRequest EXCEPT !.phase = "done", !.status = status, !.number = req.number]

\* client.send of _send_request_with_retry: the call transmits the request
\* once, or twice when the first transmission ended in RemoteProtocolError
\* or ReadTimeout.
Transmissions(resent) == IF resent THEN send_max_retries ELSE 1

\* account = <replacement>; tried_accounts.add(account["id"]); continue
SwitchTo(a, resent) ==
    [req EXCEPT !.account = a, !.tried_accounts = @ \cup {a},
                !.attempt = @ + 1, !.picks = Append(@, a),
                !.sends = @ + Transmissions(resent)]

\* continue with the same account
SameAccountAgain(resent) ==
    [req EXCEPT !.attempt = @ + 1, !.sends = @ + Transmissions(resent)]

\* resolve_account_for_key after verify_key has returned the key: the
\* candidates are the enabled accounts, scoped by the key's
\* allowed_account_ids; X-Account-Id, then default_account_id, then
\* _select_best_account.  generate_secure_key puts default_account_id into
\* allowed_account_ids.
Resolve(router, allowed, default_account_id, requested_account_id, end_user_id) ==
    /\ req.phase \in {"idle", "done"}
    /\ req.number < MaxRequests
    /\ default_account_id # NoAccount => default_account_id \in allowed
    /\ LET candidates == list_enabled_accounts(accounts)
           scoped == scoped_candidates(candidates, allowed)
           start(a) == [IdleRequest EXCEPT
                          !.phase = IF router = "openai" THEN "resolved" ELSE "sending",
                          !.router = router, !.allowed = allowed,
                          !.requested = requested_account_id,
                          !.default = default_account_id,
                          !.end_user = end_user_id, !.first = a,
                          !.account = a, !.tried_accounts = {a},
                          !.number = req.number + 1]
           refuse(status) == [IdleRequest EXCEPT
                                !.phase = "done", !.status = status,
                                !.router = router, !.allowed = allowed,
                                !.requested = requested_account_id,
                                !.number = req.number + 1]
       IN  req' = IF candidates = {} THEN refuse(401)
                  ELSE IF scoped = {} THEN refuse(403)
                  ELSE IF requested_account_id # NoAccount
                  THEN IF requested_account_id \in scoped
                       THEN start(requested_account_id) ELSE refuse(403)
                  ELSE IF default_account_id # NoAccount /\ default_account_id \in scoped
                  THEN start(default_account_id)
                  ELSE start(select_best_account(accounts, scoped))
    /\ UNCHANGED <<lockVars, storeVars, session, keyVars, streamVars,
                   dedupeVars, moreVars>>

\* _prepare_account_with_session(account, messages), called by
\* chat_completions without user_id, then RetryContext.create(account): the
\* account bound to the conversation is taken when it is among the enabled
\* accounts and QuotaService does not report it exhausted; otherwise the
\* account resolved for the key is kept.
SessionBind(quota_status_exhausted) ==
    /\ req.phase = "resolved"
    /\ LET candidates == list_enabled_accounts(accounts)
           session_key == generate_session_key(Conversation, NoUser)
           session_account_id == get_session_account(session, session_key)
           a == IF session_account_id # NoAccount /\ session_account_id \in candidates
                   /\ ~quota_status_exhausted
                THEN session_account_id ELSE req.account
       IN  req' = [req EXCEPT !.phase = "sending", !.account = a,
                              !.first = a, !.tried_accounts = {a}]
    /\ UNCHANGED <<lockVars, storeVars, session, keyVars, streamVars,
                   dedupeVars, moreVars>>

\* Retry loop of claude_messages: one pass of "for attempt in
\* range(max_retries)" with the upstream's answer to _send_upstream_raw.
SendClaude(answer, resent) ==
    /\ req.phase = "sending"
    /\ req.router = "claude"
    /\ LET id == req.account
           more == more_attempts(req.attempt)
       IN  \/ /\ answer = "ok"
              /\ accounts[id].success_count < MaxSuccesses
              /\ accounts' = update_account_stats(accounts, id, TRUE, FALSE)
              /\ req' = Finished(200)
           \/ /\ answer \in {"quota", "suspended", "unauthorized"}
              /\ accounts' = IF answer = "quota"
                             THEN update_account_stats(accounts, id, FALSE, TRUE)
                             ELSE disable_account(accounts, id)
              /\ LET available == list_enabled_accounts(accounts') \ req.tried_accounts
                 IN  IF more /\ available # {}
                     THEN \E a \in available : req' = SwitchTo(a, resent)
                     ELSE req' = Finished(final_status(answer))
           \/ /\ answer \in {"client_error", "connect_error", "429", "error"}
              /\ accounts[id].error_count < MaxErrors
              /\ accounts' = update_account_stats(accounts, id, FALSE, FALSE)
              /\ LET available == list_enabled_accounts(accounts') \ req.tried_accounts
                 IN  CASE answer = "client_error" -> req' = Finished(400)
                       [] answer = "connect_error" ->
                            req' = IF more THEN SameAccountAgain(resent)
                                   ELSE Finished(500)
                       [] answer = "429" ->
                            IF more /\ available # {}
                            THEN \E a \in available : req' = SwitchTo(a, resent)
                            ELSE req' = IF more THEN SameAccountAgain(resent)
                                        ELSE Finished(500)
                       [] OTHER -> req' = Finished(500)
    /\ UNCHANGED <<lockVars, session, keyVars, streamVars,
                   dedupeVars, moreVars>>

\* Retry loop of the OpenAI router (_handle_non_streaming_request with
\* _handle_retry_error, _select_fallback_account and _raise_final_error);
\* on success the conversation is bound to the account under
\* generate_session_key(messages, user_id=end_user_id).
SendOpenAI(answer, resent) ==
    /\ req.phase = "sending"
    /\ req.router = "openai"
    /\ LET id == req.account
           more == more_attempts(req.attempt)
           session_key == generate_session_key(Conversation, req.end_user)
       IN  \/ /\ answer = "ok"
              /\ accounts[id].success_count < MaxSuccesses
              /\ accounts' = update_account_stats(accounts, id, TRUE, FALSE)
              /\ session' = bind_session_account(session, session_key, id)
              /\ req' = Finished(200)
           \/ /\ answer \in {"quota", "suspended", "unauthorized"}
              /\ accounts' = IF answer = "quota"
                             THEN update_account_stats(accounts, id, FALSE, TRUE)
                             ELSE disable_account(accounts, id)
              /\ LET available == list_enabled_accounts(accounts') \ req.tried_accounts
                 IN  req' = IF more /\ available # {}
                            THEN SwitchTo(select_best_account(accounts', available),
                                          resent)
                            ELSE Finished(final_status(answer))
              /\ UNCHANGED session
           \/ /\ answer \in {"http_error", "429", "error"}
              /\ accounts[id].error_count < MaxErrors
              /\ accounts' = update_account_stats(accounts, id, FALSE, FALSE)
              /\ LET available == list_enabled_accounts(accounts') \ req.tried_accounts
                 IN  req' = IF answer = "429" /\ more /\ available # {}
                            THEN SwitchTo(select_best_account(accounts', available),
                                          resent)
                            ELSE Finished(IF answer = "http_error" THEN 502 ELSE 500)
              /\ UNCHANGED session
    /\ UNCHANGED <<lockVars, keyVars, streamVars,
                   dedupeVars, moreVars>>

\* A row of session_accounts passes its expires_at (ttl 3600 s):
\* get_session_account no longer returns it.
ExpireSession(session_key) ==
    /\ session[session_key] # NoAccount
    /\ session' = [session EXCEPT ![session_key] = NoAccount]
    /\ UNCHANGED <<lockVars, storeVars, req, keyVars, streamVars,
                   dedupeVars, moreVars>>

----------------------------------------------------------------------------
(* A streamed response: event_generator of the Anthropic router and         *)
(* event_gen of the OpenAI router, on top of the generators that            *)
(* send_chat_request returns (_iter_events, StreamTracker).  The events of  *)
(* the upstream, the client's disconnect and the interpreter's finalizer    *)
(* are inputs.                                                             *)

\* chunks of one response that the model tells apart
MaxChunks == 3

NoStream ==
    [phase |-> "idle", router |-> "none", account |-> NoAccount,
     event_count |-> 0,
     has_yielded |-> FALSE, has_content |-> FALSE, produced |-> FALSE,
     upstream |-> "none", how |-> "none", recorded |-> "none"]

\* variant
disconnect_failure(has_content) == FALSE

\* except GeneratorExit:
\*     update_account_stats(id, tracker.has_content if tracker else False)
disconnect_outcome(has_content) == has_content

Chunks(n) == IF n < MaxChunks THEN n + 1 ELSE n

\* update_account_stats(id, success) at the end of a stream
Record(success) ==
    /\ success => accounts[stream.account].success_count < MaxSuccesses
    /\ ~success => accounts[stream.account].error_count < MaxErrors
    /\ accounts' = update_account_stats(accounts, stream.account, success, FALSE)

Outcome(success) == IF success THEN "success" ELSE "failure"

\* The retry loop has obtained the upstream's generators and the router
\* returns StreamingResponse(...).  claude_messages has already taken the
\* first event from _safe_event_gen, which sets tracker.has_content on every
\* event; chat_completions has read nothing yet.  account is the account
\* the retry loop has ended on.
StartStream(router, account) ==
    /\ stream.phase \in {"idle", "ended"}
    /\ accounts[account].enabled
    /\ stream' = [NoStream EXCEPT !.phase = "open", !.router = router,
                                  !.account = account,
                                  !.upstream = "open",
                                  !.has_yielded = (router = "claude"),
                                  !.has_content = (router = "claude")]
    /\ UNCHANGED <<lockVars, storeVars, dispatchVars, keyVars, dedupeVars, moreVars>>

\* event_gen of the OpenAI router: the first chunk carries the role and is
\* yielded before the upstream is read.
EmitRole ==
    /\ stream.phase = "open" /\ stream.router = "openai"
    /\ stream.event_count = 0
    /\ stream' = [stream EXCEPT !.event_count = 1]
    /\ UNCHANGED <<lockVars, storeVars, dispatchVars, keyVars, dedupeVars, moreVars>>

\* One event of the upstream reaches the router's generator.  kind "text":
\* content that is passed on to the client as a chunk; "stripped": content
\* of which nothing is passed on (thinking text, or an event for which the
\* handler yields nothing); "meta": an event without text, which the text
\* tracker of the OpenAI path does not count as content.
UpstreamItem(kind) ==
    /\ stream.phase = "open" /\ stream.upstream = "open"
    /\ stream.router = "openai" => stream.event_count >= 1
    /\ stream.router = "claude" => kind # "meta"
    /\ stream' = [stream EXCEPT
                    !.has_yielded = TRUE,
                    !.has_content = @ \/ kind \in {"text", "stripped"},
                    !.produced = @ \/ kind = "text",
                    !.event_count = IF kind = "text" THEN Chunks(@) ELSE @]
    /\ UNCHANGED <<lockVars, storeVars, dispatchVars, keyVars, dedupeVars, moreVars>>

\* What the router does once the iteration of the upstream has ended: the
\* closing chunks are yielded and update_account_stats is called, with True
\* in event_generator and with bool(completion_text) or bool(saw_tool) in
\* event_gen.  The exhausted upstream generator has closed its response.
Completed(how) ==
    LET success == stream.router = "claude" \/ stream.produced
    IN  /\ Record(success)
        /\ stream' = [stream EXCEPT !.phase = "ended", !.how = how,
                                    !.upstream = "closed",
                                    !.event_count = Chunks(@),
                                    !.recorded = Outcome(success)]

\* The upstream ends its response.
Complete ==
    /\ stream.phase = "open" /\ stream.upstream = "open"
    /\ stream.router = "openai" => stream.event_count >= 1
    /\ Completed("complete")
    /\ UNCHANGED <<lockVars, dispatchVars, keyVars, dedupeVars, moreVars>>

\* The client goes away while the generator waits at a yield: GeneratorExit.
\* Both routers record tracker.has_content; event_generator closes
\* event_stream in its finally clause, event_gen has no such clause.
Disconnect ==
    /\ stream.phase = "open"
    /\ stream.event_count >= 1
    /\ LET success == disconnect_outcome(stream.has_content)
       IN  /\ Record(success)
           /\ stream' = [stream EXCEPT
                           !.phase = "ended", !.how = "disconnect",
                           !.upstream = IF stream.router = "claude"
                                        THEN "closed" ELSE @,
                           !.recorded = Outcome(success)]
    /\ UNCHANGED <<lockVars, dispatchVars, keyVars, dedupeVars, moreVars>>

\* The read of the upstream response fails.  A "protocol" error
\* (httpx.RemoteProtocolError, ReadError) is taken for the end of the stream
\* by _iter_events when it has yielded an event before; any other error
\* ("timeout") is swallowed by its "except Exception" when
\* tracker.has_content is set.  Otherwise the error is re-raised and reaches
\* the router's generator, which records tracker.has_content.  The finally
\* clause of _iter_events closes the response in every case.
UpstreamError(kind) ==
    /\ stream.phase = "open" /\ stream.upstream = "open"
    /\ stream.router = "openai" => stream.event_count >= 1
    /\ IF (kind = "protocol" /\ stream.has_yielded) \/ stream.has_content
       THEN Completed("error")
       ELSE /\ Record(stream.has_content)
            /\ stream' = [stream EXCEPT !.phase = "ended", !.how = "error",
                                        !.upstream = "closed",
                                        !.recorded = Outcome(stream.has_content)]
    /\ UNCHANGED <<lockVars, dispatchVars, keyVars, dedupeVars, moreVars>>

\* An exception raised in the router's generator itself while it handles an
\* event.  event_generator records True for a connection error after the
\* first chunk and tracker.has_content otherwise, then closes event_stream;
\* event_gen records tracker.has_content and re-raises.
ProcessingError(is_connection_error) ==
    /\ stream.phase = "open" /\ stream.upstream = "open"
    /\ stream.has_yielded
    /\ stream.router = "openai" => ~is_connection_error
    /\ LET success == IF is_connection_error /\ stream.event_count > 0
                      THEN TRUE ELSE stream.has_content
       IN  /\ Record(success)
           /\ stream' = [stream EXCEPT
                           !.phase = "ended", !.how = "processing_error",
                           !.upstream = IF stream.router = "claude"
                                        THEN "closed" ELSE @,
                           !.recorded = Outcome(success)]
    /\ UNCHANGED <<lockVars, dispatchVars, keyVars, dedupeVars, moreVars>>

\* The interpreter finalizes the upstream generator that no one refers to
\* any more: the event loop's finalizer hook schedules aclose(), whose
\* finally clause closes the response.  When this happens is up to the
\* garbage collector.
Finalize ==
    /\ stream.phase = "ended" /\ stream.upstream = "open"
    /\ stream' = [stream EXCEPT !.upstream = "closed"]
    /\ UNCHANGED <<lockVars, storeVars, dispatchVars, keyVars, dedupeVars, moreVars>>

----------------------------------------------------------------------------
(* Request deduplication (src/core/request_dedupe.py): every worker        *)
(* process has its own _SEEN.                                              *)

\* one step of the clock, in ms
TICK_MS == 500
\* REQUEST_DEDUPE_WINDOW_MS of a deployment that has dedup on
DEDUPE_WINDOW_MS == 1000
\* _max_keys(), scaled down (the code's floor is 100 keys)
max_keys == 1
\* the clock stops after this many steps
MaxTicks == 3

Workers == {"w1", "w2"}
Bodies == {"b1"}

\* make_key: f"{_client_id(request)}|{path}|{model}|{fp}", where the client
\* id is "u:<end user id>" when the request has one and "k:<hash of the
\* Authorization header>" otherwise; one path, model and API key here.
make_key(end_user_id, body) ==
    <<IF end_user_id # NoUser THEN <<"u", end_user_id>> ELSE <<"k", "auth">>, body>>

DedupKeys == {make_key(u, b) : u \in EndUsers \cup {NoUser}, b \in Bodies}
NoDedupKey == <<<<"none", "none">>, "none">>

\* variant
is_duplicate_at_any_age(last, t, win) == last # None /\ win > 0

\* "last is not None and win > 0 and (now - last) < win"
is_duplicate(last, t, win) == last # None /\ win > 0 /\ (t - last) < win

\* check_and_mark(key): (dup, retry_after_ms) and the new _SEEN
check_and_mark(marks, key, t, win) ==
    IF is_duplicate(marks[key], t, win)
    THEN [dup |-> TRUE,
          retry_after_ms |-> IF win - (t - marks[key]) > 1
                             THEN win - (t - marks[key]) ELSE 1,
          marks |-> marks]
    ELSE LET marked == [marks EXCEPT ![key] = t]
         IN  [dup |-> FALSE, retry_after_ms |-> 0,
              marks |-> IF Cardinality({k \in DedupKeys : marked[k] # None}) > max_keys
                        THEN [k \in DedupKeys |-> None] ELSE marked]

\* should_block(request, key)
should_block(marks, key, bypass, t, win) ==
    IF ~(win > 0) \/ bypass
    THEN [dup |-> FALSE, retry_after_ms |-> 0, marks |-> marks]
    ELSE check_and_mark(marks, key, t, win)

\* "max(1, int(((retry_after_ms or 0) + 999) / 1000))": the Retry-After header
retry_after_s(ms) == IF (ms + 999) \div 1000 > 1 THEN (ms + 999) \div 1000 ELSE 1

NoDedupe ==
    [key |-> NoDedupKey, bypass |-> FALSE, at |-> 0, prev |-> None, mark |-> None,
     status |-> 0, retry_after_ms |-> 0, retry_after |-> 0]

\* A request reaches the dedup check of a router on one of the workers:
\* 429 with Retry-After when should_block says so, otherwise the request
\* goes on.
dedupe_check(worker, end_user_id, body, bypass) ==
    LET key == make_key(end_user_id, body)
        r == should_block(seen[worker], key, bypass, now_ms, window)
    IN  /\ seen' = [seen EXCEPT ![worker] = r.marks]
        /\ dedupe' = [key |-> key, bypass |-> bypass, at |-> now_ms,
                      prev |-> arrivals[key], mark |-> seen[worker][key],
                      status |-> IF r.dup THEN 429 ELSE 200,
                      retry_after_ms |-> r.retry_after_ms,
                      retry_after |-> IF r.dup THEN retry_after_s(r.retry_after_ms)
                                      ELSE 0]
        /\ arrivals' = [arrivals EXCEPT ![key] = now_ms]
        /\ UNCHANGED <<window, now_ms>>

DedupeCheck(worker, end_user_id, body, bypass) ==
    /\ dedupe_check(worker, end_user_id, body, bypass)
    /\ UNCHANGED <<lockVars, storeVars, dispatchVars, keyVars, streamVars, moreVars>>

\* The deployment sets REQUEST_DEDUPE_WINDOW_MS before it serves requests.
Configure(win) ==
    /\ window = 0 /\ now_ms = 0
    /\ \A k \in DedupKeys : arrivals[k] = None
    /\ window' = win
    /\ UNCHANGED <<seen, now_ms, dedupe, arrivals>>
    /\ UNCHANGED <<lockVars, storeVars, dispatchVars, keyVars, streamVars, moreVars>>

\* time passes
TickMs ==
    /\ now_ms < MaxTicks * TICK_MS
    /\ now_ms' = now_ms + TICK_MS
    /\ UNCHANGED <<seen, window, dedupe, arrivals>>
    /\ UNCHANGED <<lockVars, storeVars, dispatchVars, keyVars, streamVars, moreVars>>

----------------------------------------------------------------------------
(* AdvancedKeyManager (src/security/advanced.py): the keys of one manager  *)
(* process, table secure_keys, and the key endpoints of the admin API.     *)
(* Every call presents the secret that belongs to the key id it names.     *)

\* self.max_failed_attempts (3 at security level military, 5 otherwise)
max_failed_attempts == 3
\* the 60 s of _check_rate_limit, in ticks of 20 s
MINUTE == 3
\* rate_limit_per_minute of every key
RateLimit == 2
\* max_uses of a key that limits its uses; 0 = no limit
MaxUses == 2
\* a key without max_uses is not verified once its usage_count is here
UsageCap == 3
\* the clock stops here
MaxNow == 3
MaxRestarts == 1

KeyIds == {"k1", "k2"}
ClientIps == {"ip1", "ip2"}
UserAgents == {"ua1", "ua2"}
\* allowed_ips and allowed_user_agents of every key
allowed_ips == {"ip1"}
allowed_user_agents == {"ua1"}
Instants == 0 .. MaxNow

NoKey == [status |-> "absent", usage_count |-> 0, max_uses |-> 0]
NoVerdict == [key |-> "none", result |-> "none"]
NewKey(max_uses) == [status |-> "active", usage_count |-> 0, max_uses |-> max_uses]

\* Variants of the checks of verify_key with a plausible defect each.
status_not_inactive(info) == info.status # "inactive"
max_uses_exceeded(info) == info.max_uses # 0 /\ info.usage_count > info.max_uses
counts_every_checked_request(result) ==
    result \in {"authorized", "ip", "ua", "rate_limit", "blocked"}

\* if key_info.status != KeyStatus.ACTIVE: return None
status_active(info) == info.status = "active"

\* if key_info.max_uses and key_info.usage_count >= key_info.max_uses
max_uses_reached(info) == info.max_uses # 0 /\ info.usage_count >= info.max_uses

\* key_info.usage_count += 1 stands after every check of verify_key
counts_as_use(result) == result = "authorized"

\* _check_rate_limit: minute_start = now - (now % 60)
minute_start(t) == t - (t % MINUTE)

\* _check_rate_limit: the stamps kept, timestamp > minute_start
current_minute(stamps, t) ==
    LET kept(ts) == ts > minute_start(t) IN SelectSeq(stamps, kept)

over_limit_allowed(stamps, t, limit) == Len(current_minute(stamps, t)) <= limit

\* _check_rate_limit: False when len(self.rate_limits[key_id]) >= limit
within_rate_limit(stamps, t, limit) == Len(current_minute(stamps, t)) < limit

\* _record_failed_attempt: one more attempt of the ip within the hour (the
\* count matters only up to max_failed_attempts)
record_failed_attempt(attempts, ip) ==
    [attempts EXCEPT ![ip] = IF @ < max_failed_attempts THEN @ + 1 ELSE @]

\* _is_blocked: the ip's attempts within block_duration_minutes
is_blocked(attempts, ip) == attempts[ip] >= max_failed_attempts

\* verify_key(api_key, client_ip, user_agent) with everything it awaits: the
\* lazy load from secure_keys, the checks in their order, and the UPDATEs of
\* status and usage after the lock is released.
verify_key(k, client_ip, user_agent) ==
    /\ keys[k] # NoKey /\ keys[k].max_uses = 0 => keys[k].usage_count < UsageCap
    /\ LET fetched == keys[k] = NoKey /\ secure_keys[k].status = "active"
           known == keys[k] # NoKey \/ fetched
           info == IF keys[k] # NoKey THEN keys[k] ELSE secure_keys[k]
           result ==
               IF ~known THEN "not_found"
               ELSE IF ~status_active(info) THEN "status"
               ELSE IF k \in expired THEN "expired"
               ELSE IF max_uses_reached(info) THEN "max_uses"
               ELSE IF client_ip \notin allowed_ips THEN "ip"
               ELSE IF user_agent \notin allowed_user_agents THEN "ua"
               ELSE IF ~within_rate_limit(rate_limits[k], now, RateLimit)
               THEN "rate_limit"
               ELSE IF is_blocked(failed_attempts, client_ip) THEN "blocked"
               ELSE "authorized"
           attempts == IF result \in {"not_found", "ip", "ua"}
                       THEN record_failed_attempt(failed_attempts, client_ip)
                       ELSE IF result = "authorized"
                       THEN [failed_attempts EXCEPT ![client_ip] = 0]
                       ELSE failed_attempts
           status == CASE result = "expired" -> "expired"
                       [] result = "max_uses" -> "inactive"
                       [] result \in {"ip", "ua"}
                          /\ attempts[client_ip] >= max_failed_attempts -> "compromised"
                       [] OTHER -> info.status
           usage_count == IF counts_as_use(result)
                          THEN info.usage_count + 1 ELSE info.usage_count
       IN  /\ keys' = IF known
                      THEN [keys EXCEPT ![k] = [info EXCEPT !.status = status,
                                                            !.usage_count = usage_count]]
                      ELSE keys
           /\ secure_keys' =
                  IF secure_keys[k] = NoKey THEN secure_keys
                  ELSE IF result = "max_uses"
                  THEN [secure_keys EXCEPT ![k].status = "inactive"]
                  ELSE IF result = "authorized"
                  THEN [secure_keys EXCEPT ![k].usage_count = usage_count]
                  ELSE secure_keys
           /\ rate_limits' =
                  IF result = "rate_limit"
                  THEN [rate_limits EXCEPT ![k] = current_minute(@, now)]
                  ELSE IF result \in {"blocked", "authorized"}
                  THEN [rate_limits EXCEPT ![k] = Append(current_minute(@, now), now)]
                  ELSE rate_limits
           /\ failed_attempts' = attempts
           /\ verdict' = [key |-> k, result |-> result]
           /\ authLog' = IF result = "authorized"
                         THEN [authLog EXCEPT ![k][now] = @ + 1] ELSE authLog
           /\ authTotal' = IF result = "authorized"
                           THEN [authTotal EXCEPT ![k] = @ + 1] ELSE authTotal
    /\ UNCHANGED <<expired, now, restarts>>

VerifyKey(k, client_ip, user_agent) ==
    /\ verify_key(k, client_ip, user_agent)
    /\ UNCHANGED <<lockVars, storeVars, dispatchVars, streamVars, dedupeVars, moreVars>>

NoAuthorizations == [t \in Instants |-> 0]

\* POST /v2/security/keys: generate_secure_key, then save_key_to_db.  The id
\* is a fresh random one.
GenerateKey(k, max_uses) ==
    /\ keys[k] = NoKey
    /\ secure_keys[k] = NoKey
    /\ keys' = [keys EXCEPT ![k] = NewKey(max_uses)]
    /\ secure_keys' = [secure_keys EXCEPT ![k] = NewKey(max_uses)]
    /\ expired' = expired \ {k}
    /\ rate_limits' = [rate_limits EXCEPT ![k] = <<>>]
    /\ authLog' = [authLog EXCEPT ![k] = NoAuthorizations]
    /\ authTotal' = [authTotal EXCEPT ![k] = 0]
    /\ verdict' = NoVerdict
    /\ UNCHANGED <<failed_attempts, now, restarts, lockVars, storeVars,
                   dispatchVars, streamVars,
                   dedupeVars, moreVars>>

\* revoke_key: the status changes in memory only.
RevokeKey(k) ==
    /\ keys[k] # NoKey
    /\ keys' = [keys EXCEPT ![k].status = "inactive"]
    /\ verdict' = NoVerdict
    /\ UNCHANGED <<secure_keys, expired, rate_limits, failed_attempts, now,
                   authLog, authTotal, restarts, lockVars, storeVars,
                   dispatchVars, streamVars,
                   dedupeVars, moreVars>>

\* POST /v2/security/keys/{key_id}/rotate: rotate_key (generate_secure_key
\* with the old key's limits, revoke_key on the old key), then
\* update_key_status_in_db(old, INACTIVE) and save_key_to_db(new).
RotateKey(k, new) ==
    /\ keys[k] # NoKey
    /\ new # k
    /\ keys[new] = NoKey
    /\ secure_keys[new] = NoKey
    /\ keys' = [keys EXCEPT ![new] = NewKey(keys[k].max_uses),
                            ![k].status = "inactive"]
    /\ secure_keys' = [secure_keys EXCEPT
                         ![new] = NewKey(keys[k].max_uses),
                         ![k] = IF @ = NoKey THEN @ ELSE [@ EXCEPT !.status = "inactive"]]
    /\ expired' = expired \ {new}
    /\ rate_limits' = [rate_limits EXCEPT ![new] = <<>>]
    /\ authLog' = [authLog EXCEPT ![new] = NoAuthorizations]
    /\ authTotal' = [authTotal EXCEPT ![new] = 0]
    /\ verdict' = NoVerdict
    /\ UNCHANGED <<failed_attempts, now, restarts, lockVars, storeVars,
                   dispatchVars, streamVars,
                   dedupeVars, moreVars>>

\* The same endpoint, statement by statement.  rotate_key runs under the
\* manager's lock: the new key is in self.keys and the old one is revoked
\* there when it returns.  The handler then awaits two statements on table
\* secure_keys, each committed on its own.  A handler belongs to the process
\* that started it: after a restart its remaining statements never run.
NoRotation == [old |-> "none", new |-> "none", stage |-> "idle", process |-> 0]

RotateInMemory(k, new) ==
    /\ rotation.stage = "idle"
    /\ keys[k] # NoKey
    /\ new # k
    /\ keys[new] = NoKey
    /\ secure_keys[new] = NoKey
    /\ keys' = [keys EXCEPT ![new] = NewKey(keys[k].max_uses),
                            ![k].status = "inactive"]
    /\ expired' = expired \ {new}
    /\ rate_limits' = [rate_limits EXCEPT ![new] = <<>>]
    /\ authLog' = [authLog EXCEPT ![new] = NoAuthorizations]
    /\ authTotal' = [authTotal EXCEPT ![new] = 0]
    /\ verdict' = NoVerdict
    /\ rotation' = [old |-> k, new |-> new, stage |-> "rotated",
                    process |-> restarts]
    /\ UNCHANGED <<secure_keys, failed_attempts, now, restarts, lockVars,
                   storeVars, dispatchVars, streamVars, dedupeVars,
                   creation, auth_sessions, flow, quota, sse, think, lateVars>>

\* update_key_status_in_db(key_id, KeyStatus.INACTIVE)
RotateWriteStatus ==
    /\ rotation.stage = "rotated"
    /\ rotation.process = restarts
    /\ secure_keys' = [secure_keys EXCEPT
                         ![rotation.old] =
                             IF @ = NoKey THEN @ ELSE [@ EXCEPT !.status = "inactive"]]
    /\ rotation' = [rotation EXCEPT !.stage = "status_written"]
    /\ UNCHANGED <<keys, expired, rate_limits, failed_attempts, now, verdict,
                   authLog, authTotal, restarts, lockVars, storeVars,
                   dispatchVars, streamVars, dedupeVars,
                   creation, auth_sessions, flow, quota, sse, think, lateVars>>

\* save_key_to_db(new_key_id): INSERT of self.keys[new_key_id]
RotateSaveKey ==
    /\ rotation.stage = "status_written"
    /\ rotation.process = restarts
    /\ secure_keys' = [secure_keys EXCEPT ![rotation.new] = keys[rotation.new]]
    /\ rotation' = [rotation EXCEPT !.stage = "done"]
    /\ UNCHANGED <<keys, expired, rate_limits, failed_attempts, now, verdict,
                   authLog, authTotal, restarts, lockVars, storeVars,
                   dispatchVars, streamVars, dedupeVars,
                   creation, auth_sessions, flow, quota, sse, think, lateVars>>

\* The key's expires_at passes.
Expire(k) ==
    /\ k \notin expired
    /\ keys[k] # NoKey \/ secure_keys[k] # NoKey
    /\ expired' = expired \cup {k}
    /\ verdict' = NoVerdict
    /\ UNCHANGED <<keys, secure_keys, rate_limits, failed_attempts, now,
                   authLog, authTotal, restarts, lockVars, storeVars,
                   dispatchVars, streamVars,
                   dedupeVars, moreVars>>

\* The process restarts: a new manager, then load_keys_from_db (app.py
\* startup): the rows with status = 'active' are loaded, except the expired
\* ones, whose row is set to expired.
Restart ==
    /\ restarts < MaxRestarts
    /\ restarts' = restarts + 1
    /\ keys' = [k \in KeyIds |->
                  IF secure_keys[k].status = "active" /\ k \notin expired
                  THEN secure_keys[k] ELSE NoKey]
    /\ secure_keys' = [k \in KeyIds |->
                         IF secure_keys[k].status = "active" /\ k \in expired
                         THEN [secure_keys[k] EXCEPT !.status = "expired"]
                         ELSE secure_keys[k]]
    /\ rate_limits' = [k \in KeyIds |-> <<>>]
    /\ failed_attempts' = [ip \in ClientIps |-> 0]
    /\ authLog' = [k \in KeyIds |-> NoAuthorizations]
    /\ verdict' = NoVerdict
    /\ UNCHANGED <<expired, now, authTotal, lockVars, storeVars, dispatchVars, streamVars,
                   dedupeVars, moreVars>>

\* time.time() advances by one tick.
TickKeys ==
    /\ now < MaxNow
    /\ now' = now + 1
    /\ verdict' = NoVerdict
    /\ UNCHANGED <<keys, secure_keys, expired, rate_limits, failed_attempts,
                   authLog, authTotal, restarts, lockVars, storeVars,
                   dispatchVars, streamVars,
                   dedupeVars, moreVars>>

----------------------------------------------------------------------------
(* Account creation: POST /v2/accounts, POST /v2/accounts/feed and the      *)
(* completion of a device-flow login.  A row of table accounts is kept      *)
(* here by the credentials it was created with.                             *)

\* rows of table accounts in the model
MaxRows == 2
Callers == {"c1", "c2"}
\* a refresh token as submitted: its secret, with or without white space
RefreshTokens ==
    {[secret |-> "s1", padded |-> FALSE], [secret |-> "s1", padded |-> TRUE],
     [secret |-> "s2", padded |-> FALSE]}
\* the e-mail claim of an access token, in the case it was issued with
AccessTokens ==
    {[addr |-> "e1", upper |-> FALSE], [addr |-> "e1", upper |-> TRUE],
     [addr |-> "e2", upper |-> FALSE]}

\* _hash_token(refresh_token.strip())
_get_token_fingerprint(refresh_token) == refresh_token.secret
\* decoded["email"].lower().strip()
extract_email_from_token(access_token) == access_token.addr

check_duplicate_account(rows, refresh_token, access_token) ==
    \E i \in 1 .. Len(rows) :
        \/ _get_token_fingerprint(rows[i].refreshToken)
               = _get_token_fingerprint(refresh_token)
        \/ extract_email_from_token(rows[i].accessToken)
               = extract_email_from_token(access_token)

NoCall == [stage |-> "idle", via |-> "none", status |-> 0]
Submitted(via, refresh_token, access_token) ==
    [stage |-> "checked", via |-> via, status |-> 0,
     refreshToken |-> refresh_token, accessToken |-> access_token]

InitCreation ==
    creation = [rows |-> <<>>, calls |-> [c \in Callers |-> NoCall]]

notCreation ==
    <<baseVars, rotation, auth_sessions, flow, quota, sse, think, lateVars>>

\* create_account up to its INSERT: check_duplicate_account reads the table;
\* a duplicate is answered 409.  create_accounts_feed does the same for an
\* item of its batch, against the rows it read when it started, and skips
\* a duplicate.
CreateCheck(c, via, refresh_token, access_token) ==
    /\ creation.calls[c].stage = "idle"
    /\ Len(creation.rows) < MaxRows
    /\ creation' =
         [creation EXCEPT !.calls[c] =
            IF check_duplicate_account(creation.rows, refresh_token, access_token)
            THEN [stage |-> "answered", via |-> via,
                  status |-> IF via = "admin" THEN 409 ELSE 200]
            ELSE Submitted(via, refresh_token, access_token)]
    /\ UNCHANGED notCreation

\* the INSERT of create_account and of create_accounts_feed
CreateInsert(c) ==
    /\ creation.calls[c].stage = "checked"
    /\ creation' =
         [creation EXCEPT
            !.rows = Append(@, [refreshToken |-> creation.calls[c].refreshToken,
                                accessToken |-> creation.calls[c].accessToken]),
            !.calls[c] = [stage |-> "answered", via |-> creation.calls[c].via,
                          status |-> 200]]
    /\ UNCHANGED notCreation

\* The caller sends its next request.
NextCall(c) ==
    /\ creation.calls[c].stage = "answered"
    /\ creation' = [creation EXCEPT !.calls[c] = NoCall]
    /\ UNCHANGED notCreation

\* _poll_device_flow_and_create_account: the login completed, and
\* create_account_from_tokens inserts the row.
DeviceFlowCreate(refresh_token, access_token) ==
    /\ Len(creation.rows) < MaxRows
    /\ creation' =
         [creation EXCEPT
            !.rows = Append(@, [refreshToken |-> refresh_token,
                                accessToken |-> access_token])]
    /\ UNCHANGED notCreation

----------------------------------------------------------------------------
(* AUTH_SESSIONS (src/services/account_service.py): an OrderedDict of       *)
(* TimedAuthSession, first entry first, and table auth_sessions.            *)

\* seconds of SESSION_TTL_SECONDS, in ticks of the clock
SESSION_TTL_SECONDS == 3
\* MAX_AUTH_SESSIONS
max_sessions == 2
\* the clock stops here
MaxClock == 5
AuthIds == {"x1", "x2", "x3"}

notSessions ==
    <<baseVars, rotation, creation, flow, quota, sse, think, lateVars>>

NoPut == [op |-> "none", auth_id |-> "none", swept |-> {}, evicted |-> {}]

InitSessions ==
    auth_sessions = [map |-> <<>>, table |-> {}, clock |-> 0, last |-> NoPut]

\* TimedAuthSession.is_expired
is_expired(sess, clock) == clock - sess.created_at > SESSION_TTL_SECONDS

Ids(map) == {map[i].auth_id : i \in 1 .. Len(map)}
Without(map, ids) == SelectSeq(map, LAMBDA sess : sess.auth_id \notin ids)
ExpiredIds(map, clock) ==
    {map[i].auth_id : i \in {j \in 1 .. Len(map) : is_expired(map[j], clock)}}
Entry(map, auth_id) ==
    map[CHOOSE i \in 1 .. Len(map) : map[i].auth_id = auth_id]

\* the entries popitem(last=False) takes while the map is over the limit
Overflow(map) == IF Len(map) > max_sessions THEN Len(map) - max_sessions ELSE 0

\* _auth_sessions_put_sync: sweep of the expired entries, update (touch and
\* move_to_end) or insert, then eviction from the front.
Put(sessions, auth_id) ==
    LET clock == sessions.clock
        swept == ExpiredIds(sessions.map, clock)
        kept == Without(sessions.map, swept)
        placed ==
            IF auth_id \in Ids(kept)
            THEN Append(Without(kept, {auth_id}),
                        [Entry(kept, auth_id) EXCEPT !.last_accessed = clock])
            ELSE Append(kept, [auth_id |-> auth_id, created_at |-> clock,
                               last_accessed |-> clock])
        n == Overflow(placed)
    IN  [sessions EXCEPT
            !.map = SubSeq(placed, n + 1, Len(placed)),
            !.last = [op |-> "put", auth_id |-> auth_id, swept |-> swept,
                      evicted |-> {placed[i] : i \in 1 .. n}]]

\* save_auth_session: the put, then DELETE and INSERT on table auth_sessions
SaveSession(auth_id) ==
    /\ auth_sessions' =
         [Put(auth_sessions, auth_id) EXCEPT !.table = @ \cup {auth_id}]
    /\ UNCHANGED notSessions

\* load_auth_session: an entry in memory is dropped if expired and touched
\* otherwise; an id not in memory is looked up in the table and put.
LoadSession(auth_id) ==
    /\ auth_sessions' =
         IF auth_id \in Ids(auth_sessions.map)
         THEN IF is_expired(Entry(auth_sessions.map, auth_id), auth_sessions.clock)
              THEN [auth_sessions EXCEPT
                      !.map = Without(@, {auth_id}),
                      !.last = [NoPut EXCEPT !.op = "load", !.auth_id = auth_id]]
              ELSE [auth_sessions EXCEPT
                      !.map = [i \in 1 .. Len(@) |->
                                 IF @[i].auth_id = auth_id
                                 THEN [@[i] EXCEPT !.last_accessed = auth_sessions.clock]
                                 ELSE @[i]],
                      !.last = [NoPut EXCEPT !.op = "load", !.auth_id = auth_id]]
         ELSE IF auth_id \in auth_sessions.table
              THEN Put(auth_sessions, auth_id)
              ELSE [auth_sessions EXCEPT
                      !.last = [NoPut EXCEPT !.op = "load", !.auth_id = auth_id]]
    /\ UNCHANGED notSessions

\* time.time() advances.
TickSessions ==
    /\ auth_sessions.clock < MaxClock
    /\ auth_sessions' = [auth_sessions EXCEPT !.clock = @ + 1, !.last = NoPut]
    /\ UNCHANGED notSessions

----------------------------------------------------------------------------
(* The device-flow login of src/routers/auth.py: auth_start and the task   *)
(* it creates, _poll_device_flow_and_create_account.  The clock counts     *)
(* from the session's startTime, in units of the polling interval.         *)
(* poll_token_device_code (src/api/oidc_flow.py) is modelled by its call:  *)
(* it asks the OIDC service once per interval and raises TimeoutError once *)
(* min(expires_in, max_timeout_sec) has passed.                            *)

\* max_timeout_sec=300 of the call, in polling intervals
max_timeout_sec == 3
\* the expiresIn values the OIDC service hands out, in polling intervals
MaxExpiresIn == 4
ExpiresIn == 1 .. MaxExpiresIn

notFlow ==
    <<baseVars, rotation, creation, auth_sessions, quota, sse, think, lateVars>>

NoFlow ==
    [status |-> "none", expiresIn |-> 0, enabled |-> FALSE, clock |-> 0,
     pc |-> "none", in_memory |-> FALSE, accountId |-> "none",
     remaining |-> 0]

InitFlow == flow = NoFlow

Min(a, b) == IF a < b THEN a ELSE b
deadline(sess) == Min(sess.expiresIn, max_timeout_sec)

\* variant
timeout_left_pending(raised) ==
    CASE raised = "TimeoutError" -> "pending"
      [] OTHER -> "error"

\* the except clauses of the task: the status written for an exception
status_for(raised) ==
    CASE raised = "TimeoutError" -> "timeout"
      [] OTHER -> "error"

\* auth_start: register_client_min and device_authorize succeeded; the
\* session is saved as pending and the task is created.
auth_start(expiresIn, enabled) ==
    /\ flow.status = "none"
    /\ flow' = [NoFlow EXCEPT !.status = "pending", !.expiresIn = expiresIn,
                              !.enabled = enabled, !.pc = "start",
                              !.in_memory = TRUE]
    /\ UNCHANGED notFlow

\* The task's first load_auth_session.
PollerBegin ==
    /\ flow.pc = "start"
    /\ flow' = [flow EXCEPT
                  !.pc = IF flow.status = "pending" THEN "poll" ELSE "done",
                  !.in_memory = TRUE]
    /\ UNCHANGED notFlow

\* One round of poll_token_device_code: the time is up, or the service
\* answers.
PollToken(answer) ==
    /\ flow.pc = "poll"
    /\ flow' = [flow EXCEPT !.pc =
                  IF flow.clock >= deadline(flow) THEN "TimeoutError"
                  ELSE CASE answer = "authorization_pending" -> "sleep"
                         [] answer = "tokens" -> "tokens"
                         [] answer = "no_access_token" -> "HTTPException"
                         [] OTHER -> "HTTPError"]
    /\ UNCHANGED notFlow

\* asyncio.sleep(interval)
PollSleep ==
    /\ flow.pc = "sleep"
    /\ flow' = [flow EXCEPT !.pc = "poll", !.clock = @ + 1]
    /\ UNCHANGED notFlow

\* The tokens arrived: the session is loaded again, and if it is still
\* pending the account is created and the session saved as completed; an
\* exception of create_account_from_tokens is caught like any other.
PollerComplete(created) ==
    /\ flow.pc = "tokens"
    /\ flow' =
         IF flow.status # "pending" THEN [flow EXCEPT !.pc = "done"]
         ELSE IF created
              THEN [flow EXCEPT !.status = "completed", !.accountId = "a1",
                                !.pc = "done", !.in_memory = TRUE]
              ELSE [flow EXCEPT !.pc = "Exception"]
    /\ UNCHANGED notFlow

\* except TimeoutError / httpx.HTTPError / Exception: save_auth_session
PollerExcept ==
    /\ flow.pc \in {"TimeoutError", "HTTPError", "HTTPException", "Exception"}
    /\ flow' = [flow EXCEPT !.status = status_for(flow.pc), !.pc = "done",
                            !.in_memory = TRUE]
    /\ UNCHANGED notFlow

\* GET /v2/auth/status/{auth_id}
auth_status ==
    /\ flow.status # "none"
    /\ flow' = [flow EXCEPT
                  !.remaining = IF deadline(flow) > flow.clock
                                THEN deadline(flow) - flow.clock ELSE 0,
                  !.in_memory = TRUE]
    /\ UNCHANGED notFlow

\* Puts of other sessions push this one out of AUTH_SESSIONS; it stays in
\* table auth_sessions.
Evicted ==
    /\ flow.in_memory
    /\ flow' = [flow EXCEPT !.in_memory = FALSE]
    /\ UNCHANGED notFlow

Poller ==
    \/ PollerBegin
    \/ \E answer \in {"authorization_pending", "tokens", "no_access_token",
                      "http_error"} : PollToken(answer)
    \/ PollSleep
    \/ \E created \in BOOLEAN : PollerComplete(created)
    \/ PollerExcept

----------------------------------------------------------------------------
(* QuotaService (src/services/quota_service.py) and table quota_stats,     *)
(* whose primary key is account_id.                                        *)

\* calls of record_request in the model
MaxRecords == 3
\* the months the clock goes through
MaxMonth == 2
Months == 1 .. MaxMonth
QuotaAccounts == {"a1", "a2"}

notQuota ==
    <<baseVars, rotation, creation, auth_sessions, flow, sse, think, lateVars>>

NoRow == [month_key |-> 0, request_count |-> 0, throttle_count |-> 0]
NoStats == [account_id |-> "none", month |-> 0, found |-> FALSE,
            request_count |-> 0, throttle_count |-> 0]

InitQuota ==
    quota = [quota_stats |-> [a \in QuotaAccounts |-> NoRow],
             month |-> 1,
             attempts |-> [a \in QuotaAccounts |-> [m \in Months |-> 0]],
             throttled |-> [a \in QuotaAccounts |-> [m \in Months |-> 0]],
             calls |-> 0,
             stats |-> NoStats]

\* INSERT ... ON CONFLICT(account_id) DO UPDATE SET request_count =
\* request_count + 1 (and throttle_count): the row's month_key is the one of
\* the INSERT that created it.
upsert(stored, month_key, is_throttled) ==
    IF stored = NoRow
    THEN [month_key |-> month_key, request_count |-> 1,
          throttle_count |-> IF is_throttled THEN 1 ELSE 0]
    ELSE [stored EXCEPT !.request_count = @ + 1,
                        !.throttle_count = IF is_throttled THEN @ + 1 ELSE @]

record_request(account_id, is_throttled) ==
    /\ quota.calls < MaxRecords
    /\ quota' =
         [quota EXCEPT
            !.quota_stats[account_id] = upsert(@, quota.month, is_throttled),
            !.attempts[account_id][quota.month] = @ + 1,
            !.throttled[account_id][quota.month] =
                IF is_throttled THEN @ + 1 ELSE @,
            !.calls = @ + 1,
            !.stats = NoStats]
    /\ UNCHANGED notQuota

\* SELECT ... WHERE account_id = ? AND month_key = ?
get_quota_stats(account_id) ==
    /\ quota' =
         [quota EXCEPT !.stats =
            LET stored == quota.quota_stats[account_id]
            IN  IF stored # NoRow /\ stored.month_key = quota.month
                THEN [account_id |-> account_id, month |-> quota.month,
                      found |-> TRUE,
                      request_count |-> stored.request_count,
                      throttle_count |-> stored.throttle_count]
                ELSE [NoStats EXCEPT !.account_id = account_id,
                                     !.month = quota.month]]
    /\ UNCHANGED notQuota

\* The month of get_month_key passes.
NextMonth ==
    /\ quota.month < MaxMonth
    /\ quota' = [quota EXCEPT !.month = @ + 1, !.stats = NoStats]
    /\ UNCHANGED notQuota

----------------------------------------------------------------------------
(* ClaudeStreamHandler (src/integrations/claude/stream.py): the events of  *)
(* the upstream are turned into Anthropic SSE events.  A string is a        *)
(* sequence of characters; the two tags are shortened to <t> and </t>,     *)
(* which keeps what the scanner depends on: they share their first         *)
(* character and neither has a proper suffix that is a prefix of itself.   *)

THINKING_START_TAG == <<"<", "t", ">">>
THINKING_END_TAG == <<"<", "/", "t", ">">>

\* upstream events of one response
MaxEvents == 4

\* buffer[-n:] and buffer[:-n]
Last(buffer, n) == SubSeq(buffer, Len(buffer) - n + 1, Len(buffer))
ButLast(buffer, n) == SubSeq(buffer, 1, Len(buffer) - n)
\* buffer[n:]
From(buffer, n) == SubSeq(buffer, n + 1, Len(buffer))

\* str.find: the first position of tag in buffer, counted from 1; 0 = -1
find(buffer, tag) ==
    LET hits == {p \in 1 .. Len(buffer) :
                   /\ p + Len(tag) - 1 <= Len(buffer)
                   /\ SubSeq(buffer, p, p + Len(tag) - 1) = tag}
    IN  IF hits = {} THEN 0 ELSE CHOOSE p \in hits : \A q \in hits : p <= q

_pending_tag_suffix(buffer, tag) ==
    LET lengths == {n \in 1 .. Min(Len(buffer), Len(tag) - 1) :
                      Last(buffer, n) = SubSeq(tag, 1, n)}
    IN  IF lengths = {} THEN 0
        ELSE CHOOSE n \in lengths : \A m \in lengths : m <= n

NoTool == "none"
NewHandler ==
    [message_start_sent |-> FALSE,
     content_block_index |-> -1,
     content_block_started |-> FALSE,
     content_block_stop_sent |-> FALSE,
     current_tool_use |-> NoTool,
     tool_use_id |-> NoTool,
     _processed_tool_use_ids |-> {},
     _open_block_type |-> "none",
     _think_buffer |-> <<>>,
     _in_think_block |-> FALSE,
     out |-> <<>>]

\* the SSE event a build_* function of the parser module formats
Sse(event, index, block, id, data) ==
    [event |-> event, index |-> index, block |-> block, id |-> id, data |-> data]
Emit(h, sse_event) == [h EXCEPT !.out = Append(@, sse_event)]
build_content_block_stop(h) ==
    Sse("content_block_stop", h.content_block_index, "none", NoTool, <<>>)

\* yield build_content_block_stop(...); content_block_stop_sent = True
CloseBlock(h) ==
    [Emit(h, build_content_block_stop(h)) EXCEPT !.content_block_stop_sent = TRUE]

_open_block(h, block_type) ==
    LET closed == IF h._open_block_type # "none" /\ ~h.content_block_stop_sent
                  THEN CloseBlock(h) ELSE h
        index == closed.content_block_index + 1
    IN  [Emit(closed, Sse("content_block_start", index, block_type, NoTool, <<>>))
            EXCEPT !.content_block_index = index,
                   !._open_block_type = block_type,
                   !.content_block_stop_sent = FALSE,
                   !.content_block_started = TRUE]

_emit_text(h, text) ==
    IF text = <<>> THEN h
    ELSE LET opened == IF h._open_block_type # "text"
                       THEN _open_block(h, "text") ELSE h
         IN  Emit(opened, Sse("content_block_delta", opened.content_block_index,
                              "text", NoTool, text))

_emit_thinking(h, thinking) ==
    IF thinking = <<>> THEN h
    ELSE LET opened == IF h._open_block_type # "thinking"
                       THEN _open_block(h, "thinking") ELSE h
         IN  Emit(opened, Sse("content_block_delta", opened.content_block_index,
                              "thinking", NoTool, thinking))

RECURSIVE _consume_think_buffer(_)
_consume_think_buffer(h) ==
    LET buffer == h._think_buffer IN
    IF buffer = <<>> THEN h
    ELSE IF ~h._in_think_block
    THEN LET start == find(buffer, THINKING_START_TAG) IN
         IF start = 0
         THEN LET pending == _pending_tag_suffix(buffer, THINKING_START_TAG)
              IN  _emit_text([h EXCEPT !._think_buffer = Last(buffer, pending)],
                             ButLast(buffer, pending))
         ELSE _consume_think_buffer(
                [_emit_text(h, SubSeq(buffer, 1, start - 1)) EXCEPT
                    !._think_buffer =
                        From(buffer, start - 1 + Len(THINKING_START_TAG)),
                    !._in_think_block = TRUE])
    ELSE LET end == find(buffer, THINKING_END_TAG) IN
         IF end = 0
         THEN LET pending == _pending_tag_suffix(buffer, THINKING_END_TAG)
              IN  _emit_thinking([h EXCEPT !._think_buffer = Last(buffer, pending)],
                                 ButLast(buffer, pending))
         ELSE LET emitted == _emit_thinking(h, SubSeq(buffer, 1, end - 1))
                  closed ==
                      IF /\ emitted._open_block_type = "thinking"
                         /\ ~emitted.content_block_stop_sent
                      THEN [CloseBlock(emitted) EXCEPT !._open_block_type = "none"]
                      ELSE emitted
              IN  _consume_think_buffer(
                    [closed EXCEPT
                        !._think_buffer =
                            From(buffer, end - 1 + Len(THINKING_END_TAG)),
                        !._in_think_block = FALSE])

\* handle_event("initial-response", ...)
on_initial_response(h) ==
    IF h.message_start_sent THEN h
    ELSE Emit([Emit(h, Sse("message_start", -1, "none", NoTool, <<>>))
                  EXCEPT !.message_start_sent = TRUE],
              Sse("ping", -1, "none", NoTool, <<>>))

\* handle_event("assistantResponseEvent", {"content": content})
on_assistant_response(h, content) ==
    LET closed == IF h.current_tool_use # NoTool /\ ~h.content_block_stop_sent
                  THEN [CloseBlock(h) EXCEPT !.current_tool_use = NoTool,
                                             !._open_block_type = "none"]
                  ELSE h
    IN  IF content = <<>> THEN closed
        ELSE _consume_think_buffer(
                [closed EXCEPT !._think_buffer = @ \o content])

\* handle_event("toolUseEvent", {"toolUseId", "name", "input", "stop"}); the
\* event carries its name whenever it carries an id.
on_tool_use(h, tool_use_id, has_input, is_stop) ==
    IF /\ tool_use_id # NoTool
       /\ tool_use_id \in h._processed_tool_use_ids
       /\ h.current_tool_use = NoTool
    THEN h
    ELSE
    LET started ==
            IF tool_use_id # NoTool /\ h.current_tool_use = NoTool
            THEN LET closed ==
                         IF h._open_block_type # "none" /\ ~h.content_block_stop_sent
                         THEN [CloseBlock(h) EXCEPT !._open_block_type = "none"]
                         ELSE h
                     index == closed.content_block_index + 1
                 IN  [Emit(closed, Sse("content_block_start", index, "tool_use",
                                       tool_use_id, <<>>))
                        EXCEPT !._processed_tool_use_ids = @ \cup {tool_use_id},
                               !.content_block_index = index,
                               !.content_block_started = TRUE,
                               !.current_tool_use = tool_use_id,
                               !.tool_use_id = tool_use_id,
                               !.content_block_stop_sent = FALSE,
                               !._open_block_type = "tool_use"]
            ELSE h
        is_current_tool ==
            /\ started.current_tool_use # NoTool
            /\ tool_use_id = NoTool \/ tool_use_id = started.tool_use_id
        fed ==
            IF is_current_tool /\ has_input
            THEN Emit(started, Sse("content_block_delta", started.content_block_index,
                                   "tool_use", started.tool_use_id, <<"i">>))
            ELSE started
    IN  IF is_stop /\ is_current_tool
        THEN [CloseBlock(fed) EXCEPT !.content_block_started = FALSE,
                                     !.current_tool_use = NoTool,
                                     !.tool_use_id = NoTool,
                                     !._open_block_type = "none"]
        ELSE fed

\* the condition under which assistantResponseEnd and finish close a block
CloseOpenBlock(h) ==
    IF /\ h._open_block_type # "none"
       /\ h.content_block_started
       /\ ~h.content_block_stop_sent
    THEN [CloseBlock(h) EXCEPT !._open_block_type = "none"]
    ELSE h

\* finish: build_message_stop formats message_delta and message_stop
finish(h) ==
    Emit(Emit(CloseOpenBlock(h), Sse("message_delta", -1, "none", NoTool, <<>>)),
         Sse("message_stop", -1, "none", NoTool, <<>>))

notSse ==
    <<baseVars, rotation, creation, auth_sessions, flow, quota, think, lateVars>>

\* marks[i] is the number of SSE events emitted once the i-th upstream event
\* has been handled
InitSse ==
    sse = [h |-> NewHandler, phase |-> "streaming", upstream |-> <<>>,
           marks |-> <<>>]

ToolIds == {"tool-1", "tool-2"}
Contents == {<<"a">>, <<"<", "t", ">", "b">>, <<"<", "/", "t", ">">>}
UpstreamEvents ==
    [type : {"initial-response", "assistantResponseEnd", "textEvent"}]
    \cup [type : {"assistantResponseEvent"}, content : Contents]
    \cup [type : {"toolUseEvent"}, toolUseId : ToolIds,
          input : BOOLEAN, stop : BOOLEAN]
    \cup [type : {"toolUseEvent"}, toolUseId : {NoTool},
          input : {TRUE}, stop : BOOLEAN]

handle_event(h, upstream_event) ==
    CASE upstream_event.type = "initial-response" -> on_initial_response(h)
      [] upstream_event.type = "assistantResponseEvent" ->
            on_assistant_response(h, upstream_event.content)
      [] upstream_event.type = "toolUseEvent" ->
            on_tool_use(h, upstream_event.toolUseId, upstream_event.input,
                        upstream_event.stop)
      [] upstream_event.type = "assistantResponseEnd" -> CloseOpenBlock(h)
      [] OTHER -> h

\* event_generator of the Anthropic router passes an upstream event to the
\* handler.
HandleEvent(upstream_event) ==
    /\ sse.phase = "streaming"
    /\ Len(sse.upstream) < MaxEvents
    /\ sse' = [sse EXCEPT
                  !.h = handle_event(@, upstream_event),
                  !.upstream = Append(@, upstream_event),
                  !.marks = Append(@, Len(handle_event(sse.h, upstream_event).out))]
    /\ UNCHANGED notSse

\* The upstream stream, which has at least one event, is exhausted.
Finish ==
    /\ sse.phase = "streaming"
    /\ Len(sse.upstream) >= 1
    /\ sse' = [sse EXCEPT !.h = finish(@), !.phase = "finished"]
    /\ UNCHANGED notSse

----------------------------------------------------------------------------
(* The assistant's text with its thinking regions, chunk by chunk, through *)
(* ClaudeStreamHandler (Anthropic dialect) and through _ThinkingStripper   *)
(* of src/routers/openai.py (OpenAI dialect).                              *)

\* pieces a text is put together from
MaxPieces == 3
Pieces == {<<"a">>, <<"<">>, THINKING_START_TAG, THINKING_END_TAG}

RECURSIVE Flatten(_)
Flatten(pieces) ==
    IF pieces = <<>> THEN <<>> ELSE Head(pieces) \o Flatten(Tail(pieces))
Texts ==
    {Flatten(pieces) : pieces \in UNION {[1 .. n -> Pieces] : n \in 1 .. MaxPieces}}

notThink ==
    <<baseVars, rotation, creation, auth_sessions, flow, quota, sse, lateVars>>

NoStripper == [_buf |-> <<>>, _in |-> FALSE, out |-> <<>>]
InitThink ==
    think = [text |-> <<>>, dialect |-> "none", pos |-> 0, done |-> FALSE,
             h |-> NewHandler, stripper |-> NoStripper]

\* the while loop of _ThinkingStripper.feed; out collects what feed returns
RECURSIVE strip(_)
strip(st) ==
    LET buffer == st._buf IN
    IF buffer = <<>> THEN st
    ELSE IF ~st._in
    THEN LET start == find(buffer, THINKING_START_TAG) IN
         IF start = 0
         THEN LET pending == _pending_tag_suffix(buffer, THINKING_START_TAG)
              IN  [st EXCEPT !.out = @ \o ButLast(buffer, pending),
                             !._buf = Last(buffer, pending)]
         ELSE strip([st EXCEPT
                       !.out = @ \o SubSeq(buffer, 1, start - 1),
                       !._buf = From(buffer, start - 1 + Len(THINKING_START_TAG)),
                       !._in = TRUE])
    ELSE LET end == find(buffer, THINKING_END_TAG) IN
         IF end = 0
         THEN [st EXCEPT !._buf =
                 Last(buffer, _pending_tag_suffix(buffer, THINKING_END_TAG))]
         ELSE strip([st EXCEPT
                       !._buf = From(buffer, end - 1 + Len(THINKING_END_TAG)),
                       !._in = FALSE])

feed(st, text) ==
    IF text = <<>> THEN st ELSE strip([st EXCEPT !._buf = @ \o text])

\* The upstream starts to answer with a text, to a client of one dialect.
BeginText(text, dialect) ==
    /\ think.dialect = "none"
    /\ think' = [think EXCEPT !.text = text, !.dialect = dialect]
    /\ UNCHANGED notThink

\* The next n characters arrive as one assistantResponseEvent.
FeedChunk(n) ==
    /\ think.dialect # "none"
    /\ ~think.done
    /\ think.pos + n <= Len(think.text)
    /\ LET content == SubSeq(think.text, think.pos + 1, think.pos + n)
       IN  think' =
             IF think.dialect = "anthropic"
             THEN [think EXCEPT !.pos = @ + n,
                                !.h = on_assistant_response(@, content)]
             ELSE [think EXCEPT !.pos = @ + n,
                                !.stripper = feed(@, content)]
    /\ UNCHANGED notThink

\* The stream ends: finish() in the Anthropic dialect; the OpenAI router has
\* no call on the stripper at the end.
EndOfText ==
    /\ think.dialect # "none"
    /\ ~think.done
    /\ think.pos = Len(think.text)
    /\ think' =
         IF think.dialect = "anthropic"
         THEN [think EXCEPT !.done = TRUE, !.h = finish(@)]
         ELSE [think EXCEPT !.done = TRUE]
    /\ UNCHANGED notThink

----------------------------------------------------------------------------
(* Initial state and specifications.                                       *)

\* Two accounts in service; a3 has just been inserted by the bulk import.
InitStore ==
    accounts = [a \in AccountIds |->
                     [enabled |-> a # "a3", error_count |-> 0,
                      success_count |-> 0, quota_exhausted |-> FALSE]]

InitDispatch ==
    /\ req = IdleRequest
    /\ session = [k \in SessionKeys |-> NoAccount]

\* The account's access token has expired; no lock file exists.
InitLock ==
    /\ path = 0
    /\ age = [i \in Inodes |-> 0]
    /\ flockOwner = [i \in Inodes |-> NoTask]
    /\ fd = [t \in Tasks |-> 0]
    /\ pc = [t \in Tasks |-> "idle"]
    /\ elapsed = [t \in Tasks |-> 0]
    /\ outcome = [t \in Tasks |-> "none"]
    /\ row = [accessToken |-> TRUE, expires_at |-> "past",
              since_refresh |-> None, last_refresh_status |-> "never"]
    /\ posts = 0
    /\ successWrites = 0
    /\ returned = [t \in Tasks |-> NoReturn]

\* Key k1, limited to MaxUses uses, has been issued and saved; the manager
\* has loaded it.
InitKeys ==
    /\ keys = [k \in KeyIds |-> IF k = "k1" THEN NewKey(MaxUses) ELSE NoKey]
    /\ secure_keys = [k \in KeyIds |-> IF k = "k1" THEN NewKey(MaxUses) ELSE NoKey]
    /\ expired = {}
    /\ rate_limits = [k \in KeyIds |-> <<>>]
    /\ failed_attempts = [ip \in ClientIps |-> 0]
    /\ now = 1
    /\ verdict = NoVerdict
    /\ authLog = [k \in KeyIds |-> NoAuthorizations]
    /\ authTotal = [k \in KeyIds |-> 0]
    /\ restarts = 0

InitStream == stream = NoStream

InitRotate == rotation = NoRotation

----------------------------------------------------------------------------
(***************************************************************************)
(* Content deduplication.  The upstream may send each piece of the answer  *)
(* as a delta or re-send the answer so far; the caller keeps the content   *)
(* accumulated so far and passes every non-empty content value through     *)
(* delta_by_prefix (src/core/delta_utils.py) or, in                        *)
(* _dedupe_assistant_content_events and _iter_text of                      *)
(* src/integrations/replicate.py, through that module's _delta_by_prefix.  *)
(* A string is a sequence of letters.                                      *)
(***************************************************************************)
\* characters one stream delivers in all
MaxChars == 7
\* len(current) < 32 of _delta_by_prefix, scaled to the strings of the model
SMALL_FRAGMENT == 3
Letters == {"a", "b"}
Words(n) == UNION {[1 .. k -> Letters] : k \in 1 .. n}

startswith(s, prefix) ==
    Len(prefix) <= Len(s) /\ SubSeq(s, 1, Len(prefix)) = prefix
endswith(s, suffix) ==
    Len(suffix) <= Len(s) /\ Last(s, Len(suffix)) = suffix

\* for length in range(max_overlap, 0, -1): the first length that matches
longest_overlap(previous, current, max_overlap) ==
    LET lengths == {n \in 1 .. max_overlap :
                      endswith(previous, SubSeq(current, 1, n))}
    IN  IF lengths = {} THEN 0
        ELSE CHOOSE n \in lengths : \A m \in lengths : m <= n

\* variant: whatever does not continue previous replaces it
delta_whole_current(previous, current) ==
    IF current = <<>> THEN <<previous, <<>>>>
    ELSE IF startswith(current, previous)
    THEN <<current, From(current, Len(previous))>>
    ELSE <<current, current>>

\* src/core/delta_utils.py: returns <<new_previous, delta>>
delta_by_prefix(previous, current) ==
    IF current = <<>> THEN <<previous, <<>>>>
    ELSE IF previous = <<>> THEN <<current, current>>
    ELSE IF startswith(current, previous)
    THEN LET delta == From(current, Len(previous))
         IN  IF delta # <<>> THEN <<current, delta>> ELSE <<previous, <<>>>>
    ELSE
    LET idx == find(current, previous) - 1
        after == From(current, idx + Len(previous))
        length == longest_overlap(previous, current,
                                  Min(Len(previous), Len(current)))
    IN  IF idx > 0 /\ Len(previous) < Len(current) /\ after # <<>>
        THEN <<previous \o after, after>>
        ELSE IF length > 0
        THEN <<previous \o From(current, length), From(current, length)>>
        ELSE <<previous \o current, current>>

\* src/integrations/replicate.py; the cap of 4096 on the overlap is beyond
\* the strings of the model
_delta_by_prefix(previous, current) ==
    IF current = <<>> THEN <<previous, <<>>>>
    ELSE IF previous = <<>> THEN <<current, current>>
    ELSE IF startswith(current, previous)
    THEN <<current, From(current, Len(previous))>>
    ELSE IF Len(current) < SMALL_FRAGMENT
    THEN <<previous \o current, current>>
    ELSE
    LET length == longest_overlap(previous, current,
                                  Min(Len(previous), Len(current)))
    IN  IF length > 0
        THEN <<previous \o From(current, length), From(current, length)>>
        ELSE <<previous \o current, current>>

notContent == <<baseVars, midVars, translation, fleet, endpoint>>

\* contents[i] is the i-th content value received, deltas[i] what was passed
\* on for it (empty: the event was dropped)
InitContent ==
    assistant_content =
        [module |-> "none", last_assistant_content |-> <<>>,
         contents |-> <<>>, deltas |-> <<>>]

Received == Len(Flatten(assistant_content.contents))

Accumulate(module, result, current) ==
    /\ assistant_content.module \in {"none", module}
    /\ assistant_content' =
           [module |-> module,
            last_assistant_content |-> result[1],
            contents |-> Append(assistant_content.contents, current),
            deltas |-> Append(assistant_content.deltas, result[2])]
    /\ UNCHANGED notContent

\* a caller of delta_utils.delta_by_prefix handles one content value
DeltaByPrefix(current) ==
    /\ Len(current) <= MaxChars - Received
    /\ Accumulate("delta_utils",
                  delta_by_prefix(assistant_content.last_assistant_content, current),
                  current)

\* _dedupe_assistant_content_events handles one assistantResponseEvent with
\* a non-empty content (an empty one passes through untouched)
DedupeAssistantContent(current) ==
    /\ Len(current) <= MaxChars - Received
    /\ Accumulate("replicate",
                  _delta_by_prefix(assistant_content.last_assistant_content, current),
                  current)

NextContent ==
    \/ \E current \in Words(MaxChars - Received) : DeltaByPrefix(current)
    \/ \E current \in Words(MaxChars - Received) : DedupeAssistantContent(current)

----------------------------------------------------------------------------
(***************************************************************************)
(* Translation of an Anthropic message list into the Amazon Q history      *)
(* (src/integrations/claude/converter.py).  A message is its role and the  *)
(* tool ids it carries: tool_result blocks of a user message, tool_use     *)
(* blocks of an assistant message.  A history item also counts the         *)
(* messages it was merged from.                                            *)
(***************************************************************************)
\* messages of one request
MaxMessages == 4
ToolUseIds == {"toolu_1"}
Roles == {"user", "assistant", "system"}
ClaudeMessages == [role : Roles, tools : SUBSET ToolUseIds]

UserInputMessage(toolResults, merged) ==
    [role |-> "user", toolResults |-> toolResults, toolUses |-> {},
     merged |-> merged]
AssistantResponseMessage(toolUses) ==
    [role |-> "assistant", toolResults |-> {}, toolUses |-> toolUses,
     merged |-> 1]

RECURSIVE merge_user_messages(_)
merge_user_messages(pending) ==
    IF Len(pending) = 1 THEN UserInputMessage(pending[1].toolResults,
                                              pending[1].merged)
    ELSE LET rest == merge_user_messages(Tail(pending))
         IN  UserInputMessage(Head(pending).toolResults \cup rest.toolResults,
                              Head(pending).merged + rest.merged)

\* first pass of process_history: one item per user or assistant message;
\* a tool_use id already seen is left out
RECURSIVE convert_messages(_, _)
convert_messages(messages, seen_tool_use_ids) ==
    IF messages = <<>> THEN <<>>
    ELSE LET msg == Head(messages) IN
         CASE msg.role = "user" ->
                  <<UserInputMessage(msg.tools, 1)>>
                  \o convert_messages(Tail(messages), seen_tool_use_ids)
           [] msg.role = "assistant" ->
                  <<AssistantResponseMessage(msg.tools \ seen_tool_use_ids)>>
                  \o convert_messages(Tail(messages),
                                      seen_tool_use_ids \cup msg.tools)
           [] OTHER -> convert_messages(Tail(messages), seen_tool_use_ids)

Flush(history, pending) ==
    IF pending = <<>> THEN history
    ELSE Append(history, merge_user_messages(pending))

\* the loop over the items that collects user items and merges them in
\* front of the next assistant item; process_history appends a user item
\* with toolResults as it is (apart), _post_process_amazonq_history
\* collects it like any other
RECURSIVE merge_pending(_, _, _, _)
merge_pending(items, pending, history, apart) ==
    IF items = <<>> THEN Flush(history, pending)
    ELSE LET item == Head(items) IN
         IF item.role = "user"
         THEN IF apart /\ item.toolResults # {}
              THEN merge_pending(Tail(items), <<>>,
                                 Append(Flush(history, pending), item), apart)
              ELSE merge_pending(Tail(items), Append(pending, item), history,
                                 apart)
         ELSE merge_pending(Tail(items), <<>>,
                            Append(Flush(history, pending), item), apart)

\* _validate_history_alternation finds nothing to report
history_alternates(history) ==
    \A i \in 1 .. Len(history) - 1 : history[i].role # history[i + 1].role

_tool_results_match_tool_uses(tool_result_ids, tool_use_ids) ==
    tool_result_ids # {} /\ tool_result_ids \subseteq tool_use_ids

\* _validate_tool_results_follow_tool_uses finds nothing to report
tool_results_follow_tool_uses(history) ==
    \A i \in 1 .. Len(history) :
        history[i].role = "user" /\ history[i].toolResults # {} =>
            LET before == {j \in 1 .. i - 1 : history[j].role = "assistant"}
            IN  /\ before # {}
                /\ LET last_assistant ==
                           CHOOSE j \in before : \A k \in before : k <= j
                   IN  _tool_results_match_tool_uses(
                           history[i].toolResults,
                           history[last_assistant].toolUses)

\* both validations: in strict mode a finding raises ValueError, otherwise
\* it is logged
validated(history) ==
    history_alternates(history) /\ tool_results_follow_tool_uses(history)

process_history(messages) ==
    merge_pending(convert_messages(messages, {}), <<>>, <<>>, TRUE)

_post_process_amazonq_history(history) ==
    merge_pending(history, <<>>, <<>>, FALSE)

NoTranslation ==
    [messages |-> <<>>, converted |-> FALSE, strict |-> FALSE,
     raised |-> FALSE, history |-> <<>>]

notTranslation == <<baseVars, midVars, assistant_content, fleet, endpoint>>

InitTranslation == translation = NoTranslation

\* the client puts one more message into the request
AddMessage(msg) ==
    /\ ~translation.converted
    /\ Len(translation.messages) < MaxMessages
    /\ translation' = [translation EXCEPT !.messages = Append(@, msg)]
    /\ UNCHANGED notTranslation

\* convert_claude_to_amazonq_request, step 7: the messages but the last
\* become the history; a user item at its end goes into the current message
ConvertRequest(strict) ==
    /\ ~translation.converted
    /\ translation.messages # <<>>
    /\ LET history_msgs == ButLast(translation.messages, 1)
           raw == process_history(history_msgs)
           aq_history == _post_process_amazonq_history(raw)
           raised == strict /\ (~validated(raw) \/ ~validated(aq_history))
           history ==
               IF aq_history # <<>>
                  /\ aq_history[Len(aq_history)].role = "user"
               THEN ButLast(aq_history, 1)
               ELSE aq_history
       IN  translation' =
               [translation EXCEPT
                    !.converted = TRUE,
                    !.strict = strict,
                    !.raised = raised,
                    !.history = IF raised THEN <<>> ELSE history]
    /\ UNCHANGED notTranslation

NextTranslation ==
    \/ \E msg \in ClaudeMessages : AddMessage(msg)
    \/ \E strict \in BOOLEAN : ConvertRequest(strict)

----------------------------------------------------------------------------
(***************************************************************************)
(* Several worker processes (run.py --workers) verify one key.  Every      *)
(* worker has an AdvancedKeyManager of its own: self.keys and              *)
(* self.failed_attempts live in the worker, table secure_keys is shared.   *)
(* verify_key is a coroutine: it gives way to other calls of its worker    *)
(* where it awaits (the SELECT of the lazy load, the UPDATEs after the     *)
(* checks); self._lock is a threading.RLock, which the one thread that     *)
(* runs all coroutines of a worker re-enters freely.  The key allows       *)
(* MaxUses uses and the addresses allowed_ips; its rate limit is not       *)
(* reached.                                                                *)
(***************************************************************************)
VerifyCalls == {"c1", "c2"}
NoWorker == "none"
NoRows == [status |-> "none", usage_count |-> 0, max_uses |-> 0]
IdleCall == [pc |-> "idle", worker |-> NoWorker, client_ip |-> "none",
             rows |-> NoRows]

notFleet == <<baseVars, midVars, assistant_content, translation, endpoint>>

\* w1 has generated the key and holds it; w2 was started before and has not
\* seen it yet
InitFleet ==
    fleet = [secure_keys |-> NewKey(MaxUses),
             keys |-> [w \in Workers |->
                         IF w = "w1" THEN NewKey(MaxUses) ELSE NoKey],
             failed_attempts |-> [w \in Workers |-> [ip \in ClientIps |-> 0]],
             calls |-> [c \in VerifyCalls |-> IdleCall],
             expired |-> FALSE,
             restarts |-> 0,
             authorized |-> 0,
             marked |-> FALSE,
             authorized_when_marked |-> FALSE,
             usage_lowered |-> FALSE]

\* verify_key from "key_info = self.keys.get(key_id)" to the end of the
\* with block, for a call whose worker holds the key: nothing is awaited
\* here.  The UPDATE that is due is left to the next step of the call.
check_key(f, c) ==
    LET w == f.calls[c].worker
        client_ip == f.calls[c].client_ip
        info == f.keys[w]
        result ==
            IF ~status_active(info) THEN "status"
            ELSE IF f.expired THEN "expired"
            ELSE IF max_uses_reached(info) THEN "max_uses"
            ELSE IF client_ip \notin allowed_ips THEN "ip"
            ELSE IF is_blocked(f.failed_attempts[w], client_ip) THEN "blocked"
            ELSE "authorized"
        attempts == IF result = "ip"
                    THEN record_failed_attempt(f.failed_attempts[w], client_ip)
                    ELSE IF result = "authorized"
                    THEN [f.failed_attempts[w] EXCEPT ![client_ip] = 0]
                    ELSE f.failed_attempts[w]
        status == CASE result = "expired" -> "expired"
                    [] result = "max_uses" -> "inactive"
                    [] result = "ip" /\ attempts[client_ip] >= max_failed_attempts
                         -> "compromised"
                    [] OTHER -> info.status
        next == CASE result = "max_uses" -> "update_status"
                  [] result = "authorized" -> "update_usage"
                  [] OTHER -> "idle"
    IN  [f EXCEPT
           !.keys[w] = [info EXCEPT !.status = status,
                                    !.usage_count = IF counts_as_use(result)
                                                    THEN @ + 1 ELSE @],
           !.failed_attempts[w] = attempts,
           !.calls[c] = IF next = "idle" THEN IdleCall
                        ELSE [@ EXCEPT !.pc = next],
           !.authorized = IF result = "authorized" THEN @ + 1 ELSE @,
           !.marked = @ \/ (status \in {"compromised", "expired"}
                            /\ status # info.status),
           !.authorized_when_marked = @ \/ (result = "authorized" /\ f.marked)]

\* a request with the key reaches worker w: verify_key up to its first await
BeginVerify(c, w, client_ip) ==
    /\ fleet.calls[c].pc = "idle"
    /\ fleet.authorized <= MaxUses
    /\ LET called == [fleet EXCEPT !.calls[c] =
                          [IdleCall EXCEPT !.worker = w, !.client_ip = client_ip]]
       IN  fleet' = IF fleet.keys[w] # NoKey
                    THEN check_key(called, c)
                    ELSE [called EXCEPT !.calls[c].pc = "select"]
    /\ UNCHANGED notFleet

\* _load_key_from_db_by_api_key: SELECT * FROM secure_keys WHERE status =
\* 'active' is answered
SelectActive(c) ==
    /\ fleet.calls[c].pc = "select"
    /\ fleet' = [fleet EXCEPT
                   !.calls[c].pc = "loaded",
                   !.calls[c].rows = IF fleet.secure_keys.status = "active"
                                     THEN fleet.secure_keys ELSE NoRows]
    /\ UNCHANGED notFleet

\* the call goes on with the rows: no row for the key, a failed attempt;
\* otherwise self.keys[key_id] = SecureKeyInfo(row), then the checks
ResumeVerify(c) ==
    /\ fleet.calls[c].pc = "loaded"
    /\ LET w == fleet.calls[c].worker
           client_ip == fleet.calls[c].client_ip
       IN  fleet' =
               IF fleet.calls[c].rows = NoRows
               THEN [fleet EXCEPT
                       !.failed_attempts[w] = record_failed_attempt(@, client_ip),
                       !.calls[c] = IdleCall]
               ELSE check_key([fleet EXCEPT !.keys[w] = fleet.calls[c].rows,
                                            !.calls[c].rows = NoRows], c)
    /\ UNCHANGED notFleet

\* update_key_status_in_db(key_id, INACTIVE), then return None
UpdateStatus(c) ==
    /\ fleet.calls[c].pc = "update_status"
    /\ fleet' = [fleet EXCEPT !.secure_keys.status = "inactive",
                              !.calls[c] = IdleCall]
    /\ UNCHANGED notFleet

\* update_key_usage_in_db(key_id): usage_count = self.keys[key_id].usage_count
\* as it is now, then return the key
UpdateUsage(c) ==
    /\ fleet.calls[c].pc = "update_usage"
    /\ LET w == fleet.calls[c].worker
           usage_count == IF fleet.keys[w] = NoKey
                          THEN fleet.secure_keys.usage_count
                          ELSE fleet.keys[w].usage_count
       IN  fleet' = [fleet EXCEPT
                       !.secure_keys.usage_count = usage_count,
                       !.usage_lowered =
                           @ \/ usage_count < fleet.secure_keys.usage_count,
                       !.calls[c] = IdleCall]
    /\ UNCHANGED notFleet

\* datetime.now() passes the key's expires_at
ExpireFleetKey ==
    /\ ~fleet.expired
    /\ fleet' = [fleet EXCEPT !.expired = TRUE]
    /\ UNCHANGED notFleet

\* worker w is restarted while none of its calls is in flight: a new manager
\* runs load_keys_from_db
RestartWorker(w) ==
    /\ fleet.restarts < MaxRestarts
    /\ \A c \in VerifyCalls : fleet.calls[c].worker # w
    /\ LET active == fleet.secure_keys.status = "active" IN
       fleet' = [fleet EXCEPT
                   !.restarts = @ + 1,
                   !.keys[w] = IF active /\ ~fleet.expired
                               THEN fleet.secure_keys ELSE NoKey,
                   !.secure_keys.status = IF active /\ fleet.expired
                                          THEN "expired" ELSE @,
                   !.marked = @ \/ (active /\ fleet.expired),
                   !.failed_attempts[w] = [ip \in ClientIps |-> 0]]
    /\ UNCHANGED notFleet

NextFleet ==
    \/ \E c \in VerifyCalls, w \in Workers, client_ip \in ClientIps :
         BeginVerify(c, w, client_ip)
    \/ \E c \in VerifyCalls :
         \/ SelectActive(c) \/ ResumeVerify(c)
         \/ UpdateStatus(c) \/ UpdateUsage(c)
    \/ ExpireFleetKey
    \/ \E w \in Workers : RestartWorker(w)

----------------------------------------------------------------------------
(* A request to POST /v1/messages or /v1/chat/completions.  FastAPI        *)
(* resolves Depends(require_account) before it calls the endpoint: the key *)
(* is verified, and counted, first; the endpoint's dedup check comes       *)
(* after.                                                                  *)

EndpointWorker == "w1"

NoRequest == [phase |-> "idle", key |-> "none", usage_before |-> 0, status |-> 0]

InitEndpoint == endpoint = NoRequest

\* require_account -> resolve_account_for_key: verify_key, 401 when it
\* returns nothing, otherwise the endpoint is called.
RequireAccount(k, client_ip, user_agent) ==
    /\ endpoint.phase = "idle"
    /\ verify_key(k, client_ip, user_agent)
    /\ endpoint' = [phase |-> IF verdict'.result = "authorized"
                              THEN "endpoint" ELSE "idle",
                    key |-> k,
                    usage_before |-> secure_keys[k].usage_count,
                    status |-> IF verdict'.result = "authorized" THEN 0 ELSE 401]
    /\ UNCHANGED <<lockVars, storeVars, dispatchVars, streamVars, dedupeVars,
                   midVars, assistant_content, translation, fleet>>

\* claude_messages / chat_completions up to the dedup check: 429 "Duplicate
\* request blocked" when should_block says so, otherwise the request goes on.
ChatEndpoint(end_user_id, body, bypass) ==
    /\ endpoint.phase = "endpoint"
    /\ dedupe_check(EndpointWorker, end_user_id, body, bypass)
    /\ endpoint' = [endpoint EXCEPT !.phase = "idle", !.status = dedupe'.status]
    /\ UNCHANGED <<lockVars, storeVars, dispatchVars, keyVars, streamVars,
                   midVars, assistant_content, translation, fleet>>

NextEndpoint ==
    \/ \E k \in KeyIds, client_ip \in ClientIps, user_agent \in UserAgents :
         RequireAccount(k, client_ip, user_agent)
    \/ \E end_user_id \in EndUsers \cup {NoUser}, body \in Bodies,
          bypass \in BOOLEAN :
         ChatEndpoint(end_user_id, body, bypass)
    \/ Configure(DEDUPE_WINDOW_MS)
    \/ TickMs

InitMore ==
    /\ InitRotate
    /\ InitCreation
    /\ InitSessions
    /\ InitFlow
    /\ InitQuota
    /\ InitSse
    /\ InitThink
    /\ InitContent
    /\ InitTranslation
    /\ InitFleet
    /\ InitEndpoint

\* REQUEST_DEDUPE_WINDOW_MS defaults to 0 (dedup off); no worker has seen a
\* request.
InitDedupe ==
    /\ window = 0
    /\ seen = [w \in Workers |-> [k \in DedupKeys |-> None]]
    /\ now_ms = 0
    /\ dedupe = NoDedupe
    /\ arrivals = [k \in DedupKeys |-> None]

Init == InitLock /\ InitStore /\ InitDispatch /\ InitKeys /\ InitStream /\ InitDedupe
        /\ InitMore

NextLock ==
    \/ Tick
    \/ \E t \in Tasks :
         \/ Start(t) \/ LoopCheck(t) \/ StaleCheck(t) \/ ForceRemove(t)
         \/ Open(t) \/ Flock(t) \/ Stamp(t)
         \/ CsRead(t) \/ Post(t) \/ RespOk(t) \/ RespError(t)
         \/ RelUnlock(t) \/ RelClose(t) \/ RelUnlink(t)

SpecLock == Init /\ [][NextLock]_vars

\* A holder whose refresh never comes to an end (t1: its POST is never
\* answered) and two later callers.  A caller that has begun goes on running,
\* and time passes.
Holder == "t1"
Contenders == {"t2", "t3"}

Proceed(t) ==
    \/ LoopCheck(t) \/ StaleCheck(t) \/ ForceRemove(t)
    \/ Open(t) \/ Flock(t) \/ Stamp(t)
    \/ CsRead(t) \/ Post(t) \/ RespOk(t) \/ RespError(t)
    \/ RelUnlock(t) \/ RelClose(t) \/ RelUnlink(t)

NextStale ==
    \/ Tick
    \/ Start(Holder) \/ LoopCheck(Holder) \/ StaleCheck(Holder)
    \/ ForceRemove(Holder) \/ Open(Holder) \/ Flock(Holder) \/ Stamp(Holder)
    \/ CsRead(Holder) \/ Post(Holder)
    \/ RelUnlock(Holder) \/ RelClose(Holder) \/ RelUnlink(Holder)
    \/ \E t \in Contenders : Start(t) \/ Proceed(t)

SpecStale ==
    /\ Init /\ [][NextStale]_vars
    /\ WF_vars(Tick)
    /\ \A t \in Contenders : WF_vars(Proceed(t))

\* Two callers of the refresh, with every way its critical section can end.
Releasers == {"t1", "t2"}

NextRelease ==
    \/ Tick
    \/ \E t \in Releasers :
         \/ Start(t) \/ Proceed(t)
         \/ \E how \in RaisedInside : Raises(t, how)
         \/ Cancelled(t)

SpecRelease == Init /\ [][NextRelease]_vars

\* Each statement of the store touches one row, so the rows evolve
\* independently: an account in service and a freshly imported one.
StoreAccounts == {"a1", "a3"}

NextStore ==
    \E id \in StoreAccounts :
         \/ \E success, quota_exhausted \in BOOLEAN :
              UpdateAccountStats(id, success, quota_exhausted)
         \/ DisableAccount(id)
         \/ \E e \in BOOLEAN : AdminUpdate(id, e)
         \/ \E result \in {"verified", "refresh_failed", "failed"} :
              VerifyAndEnable(id, result)

SpecStore == Init /\ [][NextStore]_vars

\* Requests served one after the other, while the bulk import verifies and
\* enables the account it has inserted and other requests have accounts
\* disabled.  The requests carry no end-user id and every call of the
\* upstream client transmits once.
NextDispatch ==
    \/ \E result \in {"verified", "refresh_failed", "failed"} :
         VerifyAndEnable(ImportedAccount, result)
    \/ \E id \in AccountIds : DisableAccount(id)
    \/ \E router \in Routers, allowed \in KeyAcls :
         Resolve(router, allowed, NoAccount, NoAccount, NoUser)
    \/ \E quota_status_exhausted \in BOOLEAN : SessionBind(quota_status_exhausted)
    \/ \E answer \in {"ok", "quota", "suspended", "unauthorized", "client_error",
                      "connect_error", "429", "error"} : SendClaude(answer, FALSE)
    \/ \E answer \in {"ok", "quota", "suspended", "unauthorized", "http_error",
                      "429", "error"} : SendOpenAI(answer, FALSE)

SpecDispatch == Init /\ [][NextDispatch]_vars

\* Requests that name an account in X-Account-Id, under keys with and
\* without a default account, answered with success, quota exhaustion or
\* suspension.
NextHeader ==
    \/ VerifyAndEnable(ImportedAccount, "verified")
    \/ \E id \in AccountIds : DisableAccount(id)
    \/ \E router \in Routers, allowed \in KeyAcls,
          default_account_id \in {NoAccount, "a1"},
          requested_account_id \in {NoAccount, "a2", "a3"} :
         Resolve(router, allowed, default_account_id, requested_account_id, NoUser)
    \/ \E quota_status_exhausted \in BOOLEAN : SessionBind(quota_status_exhausted)
    \/ \E answer \in {"ok", "quota", "suspended"} : SendClaude(answer, FALSE)
    \/ \E answer \in {"ok", "quota", "suspended"} : SendOpenAI(answer, FALSE)

SpecHeader == Init /\ [][NextHeader]_vars

\* Requests of one conversation, with or without an end-user id, under a key
\* without account restrictions; a call of the upstream client may transmit
\* twice, and a binding may expire.
NextConversation ==
    \/ \E router \in Routers, end_user_id \in EndUsers \cup {NoUser} :
         Resolve(router, {}, NoAccount, NoAccount, end_user_id)
    \/ SessionBind(FALSE)
    \/ \E answer \in {"ok", "quota", "suspended", "unauthorized", "client_error",
                      "connect_error", "429", "error"}, resent \in BOOLEAN :
         SendClaude(answer, resent)
    \/ \E answer \in {"ok", "quota", "suspended", "unauthorized", "http_error",
                      "429", "error"}, resent \in BOOLEAN :
         SendOpenAI(answer, resent)
    \/ \E session_key \in SessionKeys : ExpireSession(session_key)
    \/ \E result \in {"verified", "refresh_failed", "failed"} :
         VerifyAndEnable(ImportedAccount, result)

SpecConversation == Init /\ [][NextConversation]_vars

\* Streamed responses, one after the other.
NextStream ==
    \/ \E router \in Routers, account \in AccountIds : StartStream(router, account)
    \/ EmitRole
    \/ \E kind \in {"text", "stripped", "meta"} : UpstreamItem(kind)
    \/ Complete
    \/ Disconnect
    \/ \E kind \in {"protocol", "timeout"} : UpstreamError(kind)
    \/ \E is_connection_error \in BOOLEAN : ProcessingError(is_connection_error)
    \/ Finalize

SpecStream == Init /\ [][NextStream]_vars

\* Requests with one body, with and without an end-user id and the bypass
\* header, spread over the workers as the clock advances.
NextDedupe ==
    \/ \E worker \in Workers, end_user_id \in EndUsers \cup {NoUser},
          body \in Bodies, bypass \in BOOLEAN :
         DedupeCheck(worker, end_user_id, body, bypass)
    \/ Configure(DEDUPE_WINDOW_MS)
    \/ TickMs

SpecDedupe == Init /\ [][NextDedupe]_vars

\* Refresh calls of two tasks for the account while a request that has used
\* the account records its success.
NextRefresh ==
    \/ Tick
    \/ \E t \in {"t1", "t2"} :
         \/ Start(t) \/ LoopCheck(t) \/ StaleCheck(t) \/ ForceRemove(t)
         \/ Open(t) \/ Flock(t) \/ Stamp(t)
         \/ CsRead(t) \/ Post(t) \/ RespOk(t) \/ RespError(t)
         \/ RelUnlock(t) \/ RelClose(t) \/ RelUnlink(t)
    \/ UpdateAccountStats(RefreshedAccount, TRUE, FALSE)

SpecRefresh == Init /\ [][NextRefresh]_vars

\* The life of the keys within one minute of the clock.  Key k1 was issued
\* with max_uses and an expiry date; the keys generated later have neither,
\* and a rotation passes the old key's max_uses on.
NextKeys ==
    \/ \E k \in KeyIds, client_ip \in ClientIps, user_agent \in UserAgents :
         VerifyKey(k, client_ip, user_agent)
    \/ \E k \in KeyIds :
         \/ GenerateKey(k, 0)
         \/ RevokeKey(k)
         \/ \E new \in KeyIds : RotateKey(k, new)
    \/ Expire("k1")
    \/ Restart

SpecKeys == Init /\ [][NextKeys]_vars

\* Verifications from the whitelisted address while the clock advances.
NextRate ==
    \/ \E k \in KeyIds, client_ip \in allowed_ips, user_agent \in UserAgents :
         VerifyKey(k, client_ip, user_agent)
    \/ \E k \in KeyIds : GenerateKey(k, 0)
    \/ Restart
    \/ TickKeys

SpecRate == Init /\ [][NextRate]_vars

\* One rotation request, statement by statement, while the keys are used,
\* the clock advances and the process may restart.
NextRotate ==
    \/ \E k \in KeyIds, new \in KeyIds : RotateInMemory(k, new)
    \/ RotateWriteStatus
    \/ RotateSaveKey
    \/ \E k \in KeyIds, user_agent \in UserAgents :
         VerifyKey(k, "ip1", user_agent)
    \/ Expire("k1")
    \/ TickKeys
    \/ Restart

SpecRotate == Init /\ [][NextRotate]_vars

\* Two admin clients create accounts and import feeds while device-flow
\* logins complete.
NextCreation ==
    \/ \E c \in Callers, via \in {"admin", "feed"},
          refresh_token \in RefreshTokens, access_token \in AccessTokens :
         CreateCheck(c, via, refresh_token, access_token)
    \/ \E c \in Callers : CreateInsert(c) \/ NextCall(c)
    \/ \E refresh_token \in RefreshTokens, access_token \in AccessTokens :
         DeviceFlowCreate(refresh_token, access_token)

SpecCreation == Init /\ [][NextCreation]_vars

\* Sessions are saved and loaded as the clock advances.
NextSessions ==
    \/ \E auth_id \in AuthIds : SaveSession(auth_id) \/ LoadSession(auth_id)
    \/ TickSessions

SpecSessions == Init /\ [][NextSessions]_vars

\* One device-flow login.  The event loop runs the task it was given for as
\* long as the process lives.
NextFlow ==
    \/ \E expiresIn \in ExpiresIn, enabled \in BOOLEAN :
         auth_start(expiresIn, enabled)
    \/ Poller
    \/ auth_status
    \/ Evicted

SpecFlow == Init /\ [][NextFlow]_vars /\ WF_vars(Poller)

\* Attempts are recorded and the counters read as the months pass.
NextQuota ==
    \/ \E a \in QuotaAccounts :
         \/ \E is_throttled \in BOOLEAN : record_request(a, is_throttled)
         \/ get_quota_stats(a)
    \/ NextMonth

SpecQuota == Init /\ [][NextQuota]_vars

\* One streamed response of the Anthropic router.
NextSse ==
    \/ \E upstream_event \in UpstreamEvents : HandleEvent(upstream_event)
    \/ Finish

SpecSse == Init /\ [][NextSse]_vars

\* One text, cut into chunks in every way.
NextThink ==
    \/ \E text \in Texts, dialect \in {"anthropic", "openai"} :
         BeginText(text, dialect)
    \/ \E n \in 1 .. MaxPieces * Len(THINKING_END_TAG) : FeedChunk(n)
    \/ EndOfText

SpecThink == Init /\ [][NextThink]_vars

\* the content values of one stream pass through the deduplication
SpecContent == Init /\ [][NextContent]_vars

\* one request's messages are translated into the Amazon Q history
SpecTranslation == Init /\ [][NextTranslation]_vars

\* two workers, each with calls of verify_key in flight, and restarts
SpecFleet == Init /\ [][NextFleet]_vars

\* requests to a chat endpoint, one after another
SpecEndpoint == Init /\ [][NextEndpoint]_vars

----------------------------------------------------------------------------
(* Token refresh under the lock (SpecLock).                                *)

\* C1: for the account, at any instant at most one task is inside the
\* critical section of the token refresh (between the acquisition of the lock
\* and its release), whichever tasks and processes share the lock directory.
C1_MutualExclusion ==
    Cardinality({t \in Tasks : InCriticalSection(t)}) <= 1

\* C2: when concurrent requests find the account's access token expired and
\* the OIDC endpoint answers 200, one POST is made and last_refresh_status is
\* set to success once; the other callers return the refreshed row.
C2_SingleRefresh ==
    (\A t \in Tasks : outcome[t] # "http_502")
        => posts <= 1 /\ successWrites <= 1

\* C21: a refresh call that cannot acquire the lock within the acquire
\* timeout makes the request that needed it end with status 502 (the waiter
\* has not entered the critical section).
C21_TimeoutAnswered502 ==
    \A t \in Tasks :
        outcome[t] = "lock_timeout" => answered_status(outcome[t]) = 502

\* C22: when the lock file's mtime is older than the stale threshold while
\* its holder does not release it, a caller that checks the lock removes the
\* file, and a caller acquires the lock (passes flock) afterwards: the
\* refresh of the account is not blocked forever.
C22_StaleLockRemoved ==
    \A t \in Contenders :
        (/\ pc[t] = "stale_check"
         /\ path # 0 /\ age[path] > LOCK_STALE_TIMEOUT
         /\ flockOwner[path] = Holder /\ pc[Holder] = "await_resp")
            ~> (\E u \in Contenders : pc[u] = "stamp")

\* A caller is inside the critical section on a lock file of its own while
\* the holder of the removed file still waits for its answer.
C22_Witness ==
    \E t \in Contenders :
        /\ InCriticalSection(t)
        /\ pc[Holder] = "await_resp"
        /\ fd[t] # fd[Holder] /\ path = fd[t]

----------------------------------------------------------------------------
(* Account selection and fail-over (SpecDispatch).                         *)

\* C4: every replacement account the retry loop switches to belongs to the
\* key's allowed_account_ids when the key has any, and no account is tried
\* twice through fail-over: the replacements differ from one another and
\* from the account the request started on.
C4_FailoverInCandidateSet ==
    /\ \A i \in 1 .. Len(req.picks) :
          req.allowed # {} => req.picks[i] \in req.allowed
    /\ \A i \in 1 .. Len(req.picks) : req.picks[i] # req.first
    /\ \A i, j \in 1 .. Len(req.picks) : i # j => req.picks[i] # req.picks[j]

BoundAccount(r) == session[generate_session_key(Conversation, r.end_user)]

\* C11: the account a request starts on is chosen by the first applicable
\* rule, in this order: the account named by X-Account-Id when the key allows
\* it; else the account bound to the conversation when it is among the
\* candidates; else the key's default account when it is among the
\* candidates; else the first candidate by (error rate, success_count,
\* error_count).
C11_SelectionOrder ==
    [][/\ (req'.phase = "sending" /\ req'.picks = <<>> /\ req'.requested # NoAccount)
             => req'.account = req'.requested
       /\ (/\ req.phase = "resolved" /\ req'.phase = "sending"
           /\ req.requested = NoAccount
           /\ BoundAccount(req) # NoAccount
           /\ BoundAccount(req) \in
                 scoped_candidates(list_enabled_accounts(accounts), req.allowed))
             => req'.account = BoundAccount(req)
       /\ (/\ req.phase \in {"idle", "done"} /\ req'.phase \in {"resolved", "sending"}
           /\ req'.requested = NoAccount)
             => LET scoped == scoped_candidates(list_enabled_accounts(accounts),
                                                req'.allowed)
                IN  req'.account =
                       IF req'.default # NoAccount /\ req'.default \in scoped
                       THEN req'.default
                       ELSE select_best_account(accounts, scoped)]_vars

\* X-Account-Id names an account that the key's allowed_account_ids exclude.
OutsideAcl(r) ==
    r.requested # NoAccount /\ r.allowed # {} /\ r.requested \notin r.allowed

\* C12: a request whose X-Account-Id names an account outside the key's
\* allowed_account_ids is answered 403 and is sent on no account.
C12_OutsideAclRejected403 ==
    OutsideAcl(req) =>
        req.phase = "done" /\ req.status = 403 /\ req.account = NoAccount

\* C12, amended: such a request is refused by resolve_account_for_key and is
\* sent on no account; the status is 403, or 401 when no account at all is
\* enabled at that moment.
C12_OutsideAclNeverSent ==
    [][OutsideAcl(req') =>
          /\ req'.phase = "done" /\ req'.account = NoAccount /\ req'.sends = 0
          /\ req' # req =>
               req'.status = IF list_enabled_accounts(accounts) = {}
                             THEN 401 ELSE 403]_vars

\* The header named an enabled account that the key excludes; the request was
\* refused with 403.
C12_Witness ==
    /\ OutsideAcl(req)
    /\ accounts[req.requested].enabled
    /\ req.phase = "done" /\ req.status = 403

Untried(accts, r) == list_enabled_accounts(accts) \ r.tried_accounts

C15_QuotaFailover ==
    [][/\ (/\ req.phase = "sending" /\ req.attempt = 0
           /\ ~accounts[req.account].quota_exhausted
           /\ accounts'[req.account].quota_exhausted
           /\ scoped_candidates(Untried(accounts', req), req.allowed) # {})
          => /\ ~accounts'[req.account].enabled
             /\ req'.phase = "sending"
             /\ req'.account \in scoped_candidates(Untried(accounts', req), req.allowed)
       /\ (req.phase = "sending" /\ req'.phase = "done" /\ req'.status = 200)
          => accounts'[req.account].success_count
                = accounts[req.account].success_count + 1]_vars

\* C18: when a request of the OpenAI router belongs to a conversation (same
\* first three messages, same end-user id) that an earlier request has bound
\* to account A, the binding has not expired and A is enabled, the request is
\* dispatched on A: the binding is looked up under the key it was written
\* under.
C18_BindingReused ==
    [][(/\ req.phase = "resolved" /\ req'.phase = "sending"
        /\ BoundAccount(req) # NoAccount
        /\ accounts[BoundAccount(req)].enabled)
          => req'.account = BoundAccount(req)]_vars

----------------------------------------------------------------------------
(* The debounce of the token refresh (SpecRefresh).                        *)

\* Call u follows the refresh that call t has made, inside the 60 s after
\* it and before any further refresh.
FollowsInWindow(t, u) ==
    /\ t # u
    /\ outcome[t] = "refreshed_row"
    /\ outcome[u] \in {"unexpired_row", "debounced_row"}
    /\ returned[u].in_window
    /\ returned[u].row.accessToken = returned[t].row.accessToken

----------------------------------------------------------------------------
(* The outcome and the clean-up of a streamed response (SpecStream).       *)

Ended(how) == stream.phase = "ended" /\ stream.how = how

\* C16 as stated: the outcome recorded for a streamed request is success on
\* normal completion, success exactly when bytes had been emitted on a
\* client disconnect, and success on an upstream error after bytes were
\* emitted.
C16_OutcomeRule ==
    /\ Ended("complete") => stream.recorded = "success"
    /\ Ended("disconnect")
          => (stream.recorded = "success" <=> stream.event_count > 0)
    /\ Ended("error") /\ stream.event_count > 0 => stream.recorded = "success"

\* C16, amended: the step that ends a streamed response records one outcome
\* in the account's statistics.  The Anthropic router records success on
\* completion, on a disconnect and on an upstream error after its first
\* event.  The OpenAI router records success on completion exactly when it
\* has passed text or a tool call on to the client, on a disconnect exactly
\* when the upstream has delivered content (tracker.has_content), and on an
\* upstream error as on completion when the error is swallowed and failure
\* otherwise; the role chunk it emits first does not count.
C16_OutcomeAsRecorded ==
    /\ [][(stream.phase = "open" /\ stream'.phase = "ended")
            => /\ stream'.recorded \in {"success", "failure"}
               /\ accounts' = update_account_stats(accounts, stream.account,
                                    stream'.recorded = "success", FALSE)]_vars
    /\ [](stream.phase = "ended" /\ stream.router = "claude"
            /\ stream.how \in {"complete", "disconnect", "error"}
          => stream.recorded = "success")
    /\ [](stream.phase = "ended" /\ stream.router = "openai"
          => /\ stream.how = "complete"
                  => (stream.recorded = "success" <=> stream.produced)
             /\ stream.how = "disconnect"
                  => (stream.recorded = "success" <=> stream.has_content)
             /\ stream.how = "error"
                  => (stream.recorded = "success" <=> stream.produced))

\* A client of the OpenAI router has gone away after content had arrived
\* from the upstream, and success was recorded.
C16_Witness ==
    /\ Ended("disconnect") /\ stream.router = "openai"
    /\ stream.has_content /\ stream.recorded = "success"
    /\ accounts[stream.account].success_count = 1

\* C17: whenever the client disconnects during a streamed response, on either
\* endpoint, the upstream response is closed by the time the handling of the
\* request has ended.
C17_UpstreamClosedOnDisconnect ==
    Ended("disconnect") => stream.upstream = "closed"

----------------------------------------------------------------------------
(* Request deduplication (SpecDedupe).                                     *)

\* the last request should_block has looked at, and its verdict
Checked == dedupe.key # NoDedupKey
Blocked == dedupe.status = 429

\* C19 as stated: with dedup on, a request that arrives within the window
\* after a request with the same key is rejected with 429 and Retry-After
\* unless it carries the bypass header; a request is never blocked when no
\* request with its key has arrived before; with window = 0 no request is
\* rejected.
C19_DuplicateRejected ==
    Checked =>
        /\ (window > 0 /\ dedupe.prev # None /\ dedupe.at - dedupe.prev < window)
              => (Blocked <=> ~dedupe.bypass)
        /\ Blocked => dedupe.retry_after >= 1
        /\ dedupe.prev = None => ~Blocked
        /\ window = 0 => ~Blocked

\* C19, amended: a request is rejected with 429 and Retry-After exactly when
\* dedup is on, the request carries no bypass header and the worker that
\* serves it holds a mark for the request's key that is younger than the
\* window.  A rejected request has a predecessor with the same key inside
\* the window, so requests with different keys never block one another, and
\* with window = 0 nothing is rejected.  Retry-After is the rest of the
\* window in whole seconds, rounded up.  Marks exist only for keys that have
\* arrived.
C19_DuplicateOfMark ==
    /\ Checked =>
        /\ Blocked <=> (/\ window > 0 /\ ~dedupe.bypass
                        /\ dedupe.mark # None
                        /\ dedupe.at - dedupe.mark < window)
        /\ Blocked => /\ dedupe.prev # None
                      /\ dedupe.at - dedupe.prev < window
                      /\ dedupe.retry_after_ms = window - (dedupe.at - dedupe.mark)
                      /\ dedupe.retry_after >= 1
                      /\ dedupe.retry_after * 1000 >= dedupe.retry_after_ms
                      /\ (dedupe.retry_after - 1) * 1000 < dedupe.retry_after_ms
        /\ window = 0 => ~Blocked
    /\ \A w \in Workers, k \in DedupKeys :
          seen[w][k] # None => arrivals[k] # None /\ seen[w][k] <= arrivals[k]

\* A request of end user u1 has been rejected as a duplicate although a
\* request with the same body and another client id had arrived as well.
C19_Witness ==
    /\ Blocked /\ ~dedupe.bypass
    /\ dedupe.key = make_key("u1", "b1")
    /\ arrivals[make_key(NoUser, "b1")] # None

----------------------------------------------------------------------------
(* Invariants of table accounts (SpecStore).                               *)

\* C6 as stated: after any sequence of store operations every account whose
\* error_count has reached MAX_ERROR_COUNT is disabled.
C6_ErrorLimitDisabled ==
    \A a \in AccountIds :
        accounts[a].error_count >= MAX_ERROR_COUNT => ~accounts[a].enabled

\* C6: no statement of the store leaves an account enabled with an
\* error_count it has brought to MAX_ERROR_COUNT or beyond: the failing
\* statistics update that reaches the limit sets enabled=0 in the same
\* UPDATE, and an enabled account at or over the limit has been re-enabled
\* by a statement that left its error_count as it was.
C6_LimitReachedDisables ==
    [][\A a \in AccountIds :
          accounts'[a].enabled /\ accounts'[a].error_count >= MAX_ERROR_COUNT
              => accounts'[a].error_count = accounts[a].error_count]_vars

\* The account in service has failed up to the limit and is disabled.
C6_Witness ==
    /\ accounts["a1"].error_count = MAX_ERROR_COUNT
    /\ ~accounts["a1"].enabled
    /\ ~accounts["a1"].quota_exhausted

\* C7 as stated: after any sequence of store operations every account
\* marked quota_exhausted is disabled.
C7_QuotaExhaustedDisabled ==
    \A a \in AccountIds : accounts[a].quota_exhausted => ~accounts[a].enabled

\* C7: the statement that marks an account quota_exhausted disables it in
\* the same UPDATE: an account that is enabled and quota_exhausted after a
\* statement was quota_exhausted before it (and has been re-enabled).
C7_QuotaMarkDisables ==
    [][\A a \in AccountIds :
          accounts'[a].enabled /\ accounts'[a].quota_exhausted
              => accounts[a].quota_exhausted]_vars

\* The account in service has been marked quota_exhausted and is disabled.
C7_Witness ==
    /\ accounts["a1"].quota_exhausted
    /\ ~accounts["a1"].enabled
    /\ accounts["a1"].error_count < MAX_ERROR_COUNT

----------------------------------------------------------------------------
(* Key verification (SpecKeys, SpecRate).                                  *)

\* The usage the manager holds for key k, or the row's when the key is not
\* loaded.
UsageOf(k) == IF keys[k] # NoKey THEN keys[k].usage_count
              ELSE secure_keys[k].usage_count

\* C3: verify_key returns the key only when the key's status is active at
\* that moment; an inactive, compromised or expired key is not authorized,
\* whatever generate, verify, revoke, rotate and failed attempts came before.
C3_OnlyActiveAuthorized ==
    verdict.result = "authorized" => keys[verdict.key].status = "active"

\* A key is authorized while the other key is known and not active.
C3_Witness ==
    /\ verdict.result = "authorized"
    /\ \E k \in KeyIds \ {verdict.key} :
          keys[k].status \in {"inactive", "compromised", "expired"}

C9_RejectionKeepsUsage ==
    [][verdict'.result \in {"ip", "ua", "rate_limit"} =>
           /\ keys'[verdict'.key].usage_count = UsageOf(verdict'.key)
           /\ secure_keys'[verdict'.key].usage_count
                  = secure_keys[verdict'.key].usage_count]_vars

\* A key that has been used is rejected for one of the three reasons.
C9_Witness ==
    /\ verdict.result \in {"ip", "ua", "rate_limit"}
    /\ keys[verdict.key].usage_count >= 1

RECURSIVE SumOver(_, _)
SumOver(f, S) == IF S = {} THEN 0
                 ELSE LET t == CHOOSE x \in S : TRUE
                      IN  f[t] + SumOver(f, S \ {t})

\* Authorizations of key k by this process at the instants lo <= t < hi.
AuthorizedIn(k, lo, hi) ==
    SumOver(authLog[k], {t \in Instants : lo <= t /\ t < hi})

\* C23: a key rotation is atomic: neither table secure_keys nor the keys of
\* the process that runs the rotation ever show the new key existing while
\* the old one is still active, or the old one revoked while the new one
\* does not exist.
Rotating == rotation.stage # "idle"
PartlyApplied(view) ==
    \/ view[rotation.new] # NoKey /\ view[rotation.old].status = "active"
    \/ view[rotation.old].status = "inactive" /\ view[rotation.new] = NoKey
C23_RotationAtomic ==
    Rotating =>
        /\ ~PartlyApplied(secure_keys)
        /\ rotation.process = restarts => ~PartlyApplied(keys)

\* C10 as stated: a key is authorized at most RateLimit times within one
\* minute, wherever the minute begins.
C10_AnyMinute ==
    \A k \in KeyIds, w \in Instants :
        AuthorizedIn(k, w, w + MINUTE) <= RateLimit

\* C10: one manager process authorizes a key at most RateLimit times at the
\* instants strictly inside one minute of the clock (a multiple of 60 s to
\* the next); verifications beyond that in the same minute are rejected.
C10_ClockMinute ==
    \A k \in KeyIds, m \in Instants :
        minute_start(m) = m =>
            AuthorizedIn(k, m + 1, m + MINUTE) <= RateLimit

\* The key's limit is spent inside the current minute of the clock and the
\* next verification has just been rejected for it.
C10_Witness ==
    /\ verdict.result = "rate_limit"
    /\ AuthorizedIn(verdict.key, minute_start(now) + 1, minute_start(now) + MINUTE)
           = RateLimit

----------------------------------------------------------------------------
(* Account creation (SpecCreation).                                        *)

\* C24: whatever the sequence of account creations, concurrent ones
\* included, table accounts holds at most one account per refresh-token
\* hash and at most one per e-mail.
C24_OneAccountPerCredential ==
    \A i, j \in 1 .. Len(creation.rows) :
        i # j =>
            /\ _get_token_fingerprint(creation.rows[i].refreshToken)
                   # _get_token_fingerprint(creation.rows[j].refreshToken)
            /\ extract_email_from_token(creation.rows[i].accessToken)
                   # extract_email_from_token(creation.rows[j].accessToken)

----------------------------------------------------------------------------
(* The auth-session map (SpecSessions).                                    *)

\* C25: after every put the map holds at most max_sessions entries and none
\* that is expired, and an entry the put evicted was unexpired and no more
\* recently used than any entry the put left in the map.
C25_LruBoundedWithTtl ==
    auth_sessions.last.op = "put" =>
        /\ Len(auth_sessions.map) <= max_sessions
        /\ ExpiredIds(auth_sessions.map, auth_sessions.clock) = {}
        /\ \A gone \in auth_sessions.last.evicted :
              /\ ~is_expired(gone, auth_sessions.clock)
              /\ \A i \in 1 .. Len(auth_sessions.map) :
                    gone.last_accessed <= auth_sessions.map[i].last_accessed

----------------------------------------------------------------------------
(* The device-flow login (SpecFlow).                                       *)

\* C26: an auth session created by auth_start does not stay pending: it
\* reaches completed, timeout or error, and while it is pending no more
\* than min(expiresIn, max_timeout_sec) has passed since its start.
Terminal == {"completed", "timeout", "error"}
----------------------------------------------------------------------------
(* Quota counters (SpecQuota).                                             *)

\* C27: the request_count and throttle_count that get_quota_stats reports
\* for an account are the numbers of attempts and of throttled attempts
\* recorded for that account in the month of the report.
C27_CountersMatchRecorded ==
    quota.stats.account_id # "none" =>
        /\ quota.stats.request_count
               = quota.attempts[quota.stats.account_id][quota.stats.month]
        /\ quota.stats.throttle_count
               = quota.throttled[quota.stats.account_id][quota.stats.month]

----------------------------------------------------------------------------
(* The Anthropic SSE output (SpecSse).                                     *)

IsBlockEvent(e) ==
    e.event \in {"content_block_start", "content_block_delta", "content_block_stop"}
StartsBefore(out, k) ==
    Cardinality({j \in 1 .. k - 1 : out[j].event = "content_block_start"})

\* message_start, ping, then blocks of start, one or more deltas and stop
\* with the indices 0, 1, 2, ..., then message_delta and message_stop
WellFormed(out) ==
    /\ Len(out) >= 4
    /\ out[1].event = "message_start"
    /\ out[2].event = "ping"
    /\ out[Len(out) - 1].event = "message_delta"
    /\ out[Len(out)].event = "message_stop"
    /\ \A k \in 3 .. Len(out) - 2 :
          /\ IsBlockEvent(out[k])
          /\ out[k].event = "content_block_start" =>
                /\ k = 3 \/ out[k - 1].event = "content_block_stop"
                /\ out[k].index = StartsBefore(out, k)
                /\ out[k + 1].event = "content_block_delta"
          /\ out[k].event = "content_block_delta" =>
                /\ out[k - 1].event \in {"content_block_start", "content_block_delta"}
                /\ out[k - 1].index = out[k].index
          /\ out[k].event = "content_block_stop" =>
                /\ out[k - 1].event = "content_block_delta"
                /\ out[k - 1].index = out[k].index
                /\ k = Len(out) - 2 \/ out[k + 1].event = "content_block_start"

\* C28: whatever the upstream sends, the finished SSE output is
\* message_start, ping, the blocks one after the other (start, one or more
\* deltas, stop; indices in the order of opening), message_delta,
\* message_stop.
C28_SseOrder ==
    sse.phase = "finished" => WellFormed(sse.h.out)

\* the SSE events the i-th upstream event produced, as positions of out
EmittedBy(i) ==
    (IF i = 1 THEN 1 ELSE sse.marks[i - 1] + 1) .. sse.marks[i]
Mentions(id) ==
    {i \in 1 .. Len(sse.upstream) :
        /\ sse.upstream[i].type = "toolUseEvent"
        /\ sse.upstream[i].toolUseId = id}
FirstSight(id) == CHOOSE i \in Mentions(id) : \A j \in Mentions(id) : i <= j
OpensOf(id) ==
    {k \in 1 .. Len(sse.h.out) :
        /\ sse.h.out[k].event = "content_block_start"
        /\ sse.h.out[k].id = id}
\* the positions of the content_block_stop events of the block opened at k
StopsOf(k) ==
    {m \in k + 1 .. Len(sse.h.out) :
        /\ sse.h.out[m].event = "content_block_stop"
        /\ sse.h.out[m].index = sse.h.out[k].index}

\* C29: every toolUseId of the upstream gets exactly one content block,
\* opened by the first event that carries the id and closed by an event
\* with stop = true, and an event for an id whose block is closed emits
\* nothing.
C29_OneBlockPerToolUse ==
    \A id \in ToolIds :
        Mentions(id) # {} =>
            /\ Cardinality(OpensOf(id)) = 1
            /\ \A k \in OpensOf(id) :
                  /\ k \in EmittedBy(FirstSight(id))
                  /\ \A m \in StopsOf(k) :
                        \E i \in 1 .. Len(sse.upstream) :
                            /\ m \in EmittedBy(i)
                            /\ sse.upstream[i].type = "toolUseEvent"
                            /\ sse.upstream[i].stop
                  /\ \A i \in Mentions(id) :
                        (i > 1 /\ \E m \in StopsOf(k) : m <= sse.marks[i - 1])
                            => EmittedBy(i) = {}

----------------------------------------------------------------------------
(* Thinking regions (SpecThink).                                           *)

\* The text outside the thinking regions and the text inside them, read off
\* the whole text; a region that is never closed runs to the end.
RECURSIVE Outside(_, _)
Outside(text, inside) ==
    LET p == find(text, IF inside THEN THINKING_END_TAG ELSE THINKING_START_TAG)
    IN  IF inside
        THEN IF p = 0 THEN <<>>
             ELSE Outside(From(text, p - 1 + Len(THINKING_END_TAG)), FALSE)
        ELSE IF p = 0 THEN text
             ELSE SubSeq(text, 1, p - 1)
                  \o Outside(From(text, p - 1 + Len(THINKING_START_TAG)), TRUE)
RECURSIVE Inside(_, _)
Inside(text, inside) ==
    LET p == find(text, IF inside THEN THINKING_END_TAG ELSE THINKING_START_TAG)
    IN  IF inside
        THEN IF p = 0 THEN text
             ELSE SubSeq(text, 1, p - 1)
                  \o Inside(From(text, p - 1 + Len(THINKING_END_TAG)), FALSE)
        ELSE IF p = 0 THEN <<>>
             ELSE Inside(From(text, p - 1 + Len(THINKING_START_TAG)), TRUE)

RECURSIVE Deltas(_, _)
Deltas(out, block) ==
    IF out = <<>> THEN <<>>
    ELSE (IF Head(out).event = "content_block_delta" /\ Head(out).block = block
          THEN Head(out).data ELSE <<>>) \o Deltas(Tail(out), block)

\* C30: however the text was cut into chunks, at the end of the stream the
\* text deltas together are the text outside the thinking regions and the
\* thinking deltas together are the text inside them; in the OpenAI dialect
\* the output is the text outside.
C30_ChunkingIndependent ==
    think.done =>
        IF think.dialect = "anthropic"
        THEN /\ Deltas(think.h.out, "text") = Outside(think.text, FALSE)
             /\ Deltas(think.h.out, "thinking") = Inside(think.text, FALSE)
        ELSE think.stripper.out = Outside(think.text, FALSE)


----------------------------------------------------------------------------
(***************************************************************************)
(* Claims about the content deduplication                                  *)
(***************************************************************************)
\* the upstream re-sends the answer so far: every content value continues
\* the one before it
Cumulative(contents) ==
    \A i \in 1 .. Len(contents) - 1 : startswith(contents[i + 1], contents[i])

\* C31: for every sequence of content values passed through the
\* deduplication with the running accumulated value, the deltas passed on
\* are together the accumulated content, which for an upstream that sends
\* cumulative snapshots is the last snapshot, and every delta is a suffix of
\* (or equal to) the content value it was computed from.
C31_DeltasAddUp ==
    LET c == assistant_content IN
    /\ Flatten(c.deltas) = c.last_assistant_content
    /\ c.contents # <<>> /\ Cumulative(c.contents)
           => c.last_assistant_content = c.contents[Len(c.contents)]
    /\ \A i \in 1 .. Len(c.deltas) : endswith(c.contents[i], c.deltas[i])

\* three snapshots went through delta_by_prefix: one grew the answer by a
\* proper suffix, one repeated it
C31_Witness ==
    LET c == assistant_content IN
    /\ c.module = "delta_utils"
    /\ Len(c.contents) = 3
    /\ Cumulative(c.contents)
    /\ \E i \in 2 .. 3 : c.deltas[i] = <<>>
    /\ \E i \in 2 .. 3 : c.deltas[i] # <<>> /\ c.deltas[i] # c.contents[i]

\* C32: a repeat emits nothing: delta_by_prefix(prev, prev) = (prev, ""),
\* and in any content sequence the second of two consecutive identical
\* values yields an empty delta.
C32_RepeatsEmitNothing ==
    LET c == assistant_content IN
    /\ \A prev \in Words(SMALL_FRAGMENT) \cup {<<>>} :
           /\ delta_by_prefix(prev, prev) = <<prev, <<>>>>
           /\ _delta_by_prefix(prev, prev) = <<prev, <<>>>>
    /\ \A i \in 2 .. Len(c.contents) :
           c.contents[i] = c.contents[i - 1] => c.deltas[i] = <<>>


----------------------------------------------------------------------------
(***************************************************************************)
(* Claims about the translated history                                     *)
(***************************************************************************)
\* C33: for every message list translated to the Amazon Q form, the history
\* emitted alternates strictly between user and assistant items.
C33_HistoryAlternates ==
    translation.converted /\ ~translation.raised
        => history_alternates(translation.history)


----------------------------------------------------------------------------
(***************************************************************************)
(* Claims about the lock under long holds and during its release           *)
(***************************************************************************)
Enters(t) == ~InCriticalSection(t) /\ pc'[t] \in {"cs_read", "post", "await_resp"}

\* the last statement of _do_release runs
Unlinks(t) == pc[t] = "rel_unlink" /\ pc'[t] = "done"

\* C34: no caller enters the critical section of the resource while another
\* caller is still inside it, however long that one has held the lock and
\* also while a third is between unlock and unlink of its release; and the
\* unlink of a release never removes a lock file that another caller holds
\* the flock of.
C34_ExclusionSurvivesHoldAndRelease ==
    /\ [][\A t \in Tasks :
            Enters(t) => \A u \in Tasks \ {t} : ~InCriticalSection(u)]_vars
    /\ [][\A t \in Tasks :
            Unlinks(t) /\ path # 0 => flockOwner[path] \in {NoTask, t}]_vars


----------------------------------------------------------------------------
(***************************************************************************)
(* Claims about a refresh call that follows a failed attempt               *)
(***************************************************************************)
\* the call came back with a row, no exception
ReturnedNormally(t) ==
    outcome[t] \in {"unexpired_row", "debounced_row", "refreshed_row"}

\* C35: once a refresh attempt for the account has failed, a later refresh
\* call for it (also one less than 60 s after the failure) does not return
\* normally with the old expired or missing access token: the row it returns
\* carries a token that is not expired, or the call ends in an error.
C35_NoOldTokenAfterFailure ==
    \A t \in Tasks :
        ReturnedNormally(t) /\ returned[t].row.last_refresh_status = "failed"
            => returned[t].row.expires_at = "future"


----------------------------------------------------------------------------
(***************************************************************************)
(* Claims about the session binding and the key's account list            *)
(***************************************************************************)
\* C36: the account a request goes out on after the look-up of the session
\* binding belongs to the key's allowed_account_ids when the key has any,
\* whichever account an earlier request, made with another key, has bound to
\* the conversation.
C36_StickinessWithinAcl ==
    [][(/\ req.phase = "resolved" /\ req'.phase = "sending"
        /\ req.allowed # {})
          => req'.account \in req.allowed]_vars


----------------------------------------------------------------------------
(***************************************************************************)
(* Claims about a key verified by several workers                          *)
(***************************************************************************)
\* C37: with several workers on one database, or several verifications of
\* the key interleaving in one worker (the lazy load included), the key is
\* authorized at most max_uses times in all, and usage_count of its row
\* never decreases.
C37_FleetKeepsMaxUses ==
    /\ fleet.authorized <= MaxUses
    /\ ~fleet.usage_lowered

\* C38: once a worker has marked the key compromised or expired, no call
\* authorizes it again: not after a restart, and not on another worker.
C38_MarkedNeverAuthorized == ~fleet.authorized_when_marked

\* ---------------------------------------------------------------------
\* C39: however the critical section of a refresh ends (a row returned, a
\* skipped or debounced refresh, HTTP 502, an exception, cancellation), the
\* caller that has finished holds neither the descriptor nor the flock, and
\* once no caller is at work the lock file is gone and no flock is held, so
\* the next refresh creates the file and locks it at once.
Quiescent == \A t \in Tasks : pc[t] \in {"idle", "done"}

C39_LockReleased ==
    /\ \A t \in Tasks :
         pc[t] = "done"
             => fd[t] = 0 /\ \A i \in Inodes : flockOwner[i] # t
    /\ Quiescent => path = 0 /\ \A i \in Inodes : flockOwner[i] = NoTask

C39_Witness ==
    /\ \A t \in Releasers : pc[t] = "done"
    /\ \E t, u \in Releasers :
         /\ outcome[t] = "cancelled"
         /\ outcome[u] \in RaisedInside \cup {"http_502"}
    /\ path = 0

\* ---------------------------------------------------------------------
\* C40: a request answered 429 by the dedup check leaves the usage_count of
\* its key as it was before the request.
C40_DuplicateLeavesUsage ==
    endpoint.status = 429
        => /\ secure_keys[endpoint.key].usage_count = endpoint.usage_before
           /\ keys[endpoint.key].usage_count = endpoint.usage_before

========================================================================
